---------------------------- MODULE Spec2Model ----------------------------
(***************************************************************************)
(* A model of the gesture layer of bude-global-neuro-chain-react:          *)
(*   - IntentBus            (src/src/gesture/GestureVocabulary.js)         *)
(*   - GestureStateMachine  (src/src/gesture/GestureStateMachine.js)       *)
(*   - the worker's StateMachine (src/src/gesture/GestureWorker.js)        *)
(*   - the feature registry (src/src/config/featureRegistry.js) with the   *)
(*     life cycle of src/src/gesture/WebcamGestureController.js            *)
(* Each component has its own specification (SpecBus, SpecGSM, ...); the   *)
(* variables of the other components stay at their initial values.         *)
(***************************************************************************)
EXTENDS Integers, Sequences, FiniteSets, TLC

VARIABLES
    \* ---- IntentBus ----
    listeners,      \* Map<string, Set<callback>>: kind -> callbacks in insertion order
    lastEvent,      \* this.lastEvent
    paused,         \* this.paused
    unsubs,         \* the unsubscribe closures returned so far
    calls,          \* handler invocations made by the latest operation: <<callback, event id>>
    errors,         \* console.error lines written by the latest operation
    emitThrew,      \* whether the latest operation was an emit() that propagated an exception
    again,          \* whether the latest operation was a call of an already called unsubscribe closure
    nextId,         \* number of emit() calls made so far (the id of the latest event)
    \* ---- GestureStateMachine ----
    now,            \* Date.now() at the latest update()
    states,         \* this.states: gestureName -> {state, startTime, lastSeenTime}
    cooldowns,      \* this.cooldowns: gestureName -> lastExitTime (0: no entry)
    detected,       \* detectedGestures, the argument of the latest update()
    activeGestures, \* the set returned by the latest update() ({}: none since construction or reset())
    lastOp,         \* the latest call on the state machine: "new", "update" or "reset"
    runStart,       \* per gesture: time of the first update of the current unbroken run of detections (0: none)
    held,           \* per gesture: since construction, reset() or the gesture's latest exit,
                    \* some unbroken run of detections has spanned holdDuration
    \* ---- StateMachine of the gesture worker ----
    workerNow,          \* Date.now() at the latest update()
    activeStates,       \* this.activeStates: state name -> {startTime, lastSeen} (NoEntry: absent)
    detectedThisFrame,  \* the argument of the latest update()
    active,             \* the set returned by the latest update()
    firstDetected,      \* per name: time of the first detection of the current run (0: none); a run
                        \* ends at an update that misses the name more than gracePeriod after
                        \* its latest detection
    lastDetected,       \* per name: time of the latest detection of the current run (0: none)
    \* ---- feature registry ----
    initCount,          \* initCount
    currentInitId,      \* currentInitId
    activeControllers,  \* activeControllers: 'gesture' / 'inventAdapter' -> the attempt that
                        \* made the registered object (0: no entry)
    attempts,           \* per initId: where the attempt's async functions stand, what
                        \* controller.initialize() resolved with, what initializeFeatures() returned
    controllers,        \* per initId: the WebcamGestureController the attempt constructed
    adapters,           \* per initId: the InventInteractionAdapter the attempt constructed
    \* ---- worker-based WebcamGestureController ----
    wgc,                \* the controller's fields; stream, video, hands, camera and worker
                        \* hold the condition of the object the field refers to
    wgcInit,            \* initialize(): where the call stands (pc), what its promise
                        \* settled with (result), why acquisition failed (cause)
    wgcDestroys,        \* the number of destroy() calls just made in a row (0, 1, 2: two or more)
    wgcPos,             \* smoothedPosition, lastPalm (NoPos: null) and zoomLevel
    emitted,            \* the intents the latest handleWorkerResults() emitted, in order
    platformLock,       \* the platform the adapter drives: whether it has toggleLock (has),
                        \* its lock state (locked)
    lockRun,            \* the toggles of the lock state during the current run of
                        \* consecutive results with LOCK_MODE active (2: two or more)
    \* ---- InventInteractionAdapter ----
    navNow,             \* the time of the timers (ms)
    subscribed,         \* this.unsubscribes holds the adapter's subscriptions
    mouseListener,      \* a mousemove listener of the adapter is registered on window
    isMouseMoving,      \* this.isMouseMoving
    mouseThrottleTimer, \* the time at which the pending mouse timeout is due (0: none pending)
    lastMouseMove,      \* the time of the most recent mousemove event (0: none yet)
    velocity,           \* this.velocity: x, y, zoom, in ten-thousandths
    animationId,        \* a frame of the inertia loop is requested
    platformCalls,      \* the platform calls the latest event made, in order
    navEvents,          \* the number of intents delivered to the adapter so far
    injectedSinceMouse, \* a PAN or ZOOM intent has set the velocity after the most
                        \* recent mousemove event
    \* ---- physics worker and the canvas that drives it ----
    nodes,              \* worker: nodes, a sequence of {id, x, y, vx, vy} (hundredths)
    edges,              \* worker: edges, a sequence of {source, target}
    posted,             \* the messages the latest call of the worker's onmessage posted
    handled,            \* the type of the message the latest call of the worker's
                        \* onmessage received ("none": no call yet)
    localNodes,         \* canvas: processedNodes / nodeMap, id -> {x, y, vx, vy}
    layoutMode,         \* canvas: the layout of the current theme ("none": the canvas
                        \* is not mounted yet)
    dragRef,            \* canvas: the id of dragRef.current.node ("null": dragRef.current is null)
    dragPos,            \* the world position of the latest mousemove of the current drag
                        \* (NoPos: none since the button went down)
    isDragging,         \* canvas: isDragging
    simulationActive,   \* canvas: simulationActiveRef.current
    toWorker,           \* messages posted to the worker, not yet received
    fromWorker,         \* messages posted by the worker, not yet received
    stepsPosted,        \* the number of STEP messages posted so far
    dragMoves,          \* the number of mouse events handled so far
    dataChanges,        \* the number of times processedNodes has been rebuilt since
                        \* the first render
    \* ---- message handler of the gesture worker ----
    gwReady,            \* sm, smoother and zoomSmoother are set (INIT was received)
    gwNow,              \* Date.now() at the latest PROCESS message
    gwStates,           \* sm.activeStates: state name -> {startTime, lastSeen}
    smoother,           \* smoother: alpha, s (NoPos: null), b
    zoomSmoother,       \* zoomSmoother: alpha, s (NoPos: null), b
    lastPalmDist,       \* lastPalmDist (0: null)
    lastSmoothedPos,    \* lastSmoothedPos (NoPos: null)
    lastZoomScale,      \* lastZoomScale
    gwPosted,           \* the messages the latest call of onmessage posted
    gwThrew,            \* the latest call of onmessage ended in an uncaught exception
    gwFrame,            \* payload.multiHandLandmarks of the latest PROCESS message
    rawDetected,        \* rawDetected of the latest PROCESS message
    gwFrameCount,       \* the number of PROCESS messages received so far
    gwHandled,          \* the type of the message the latest call of onmessage received
                        \* ("none": no call yet)
    \* ---- frames of the worker-based WebcamGestureController ----
    noHands,            \* the latest RESULTS message had handCount 0
    frameTick,          \* flips with every RESULTS message handled
    \* ---- window focus and the resume timers of handlePause ----
    blurred,            \* the window has lost focus and not regained it
    resumeTimers        \* the number of pending timeouts set by handlePause()

busVars == <<listeners, lastEvent, paused, unsubs, calls, errors, emitThrew, again, nextId>>

gsmVars == <<now, states, cooldowns, detected, activeGestures, lastOp, runStart, held>>

workerVars == <<workerNow, activeStates, detectedThisFrame, active, firstDetected, lastDetected>>

registryVars == <<initCount, currentInitId, activeControllers, attempts, controllers, adapters>>

wgcVars == <<wgc, wgcInit, wgcDestroys, wgcPos, emitted, platformLock, lockRun>>

navVars == <<navNow, subscribed, mouseListener, isMouseMoving, mouseThrottleTimer, lastMouseMove,
             velocity, animationId, platformCalls, navEvents, injectedSinceMouse>>

physVars == <<nodes, edges, posted, handled, localNodes, layoutMode, dragRef, dragPos,
              isDragging, simulationActive, toWorker, fromWorker, stepsPosted, dragMoves,
              dataChanges>>

gwVars == <<gwReady, gwNow, gwStates, smoother, zoomSmoother, lastPalmDist, lastSmoothedPos,
            lastZoomScale, gwPosted, gwThrew, gwFrame, rawDetected, gwFrameCount,
            gwHandled>>

frameVars == <<noHands, frameTick>>

focusVars == <<blurred, resumeTimers>>

vars == <<busVars, gsmVars, workerVars, registryVars, wgcVars, navVars, physVars, gwVars,
          frameVars, focusVars>>

\* The state of the components other than the named one.
notBus == <<gsmVars, workerVars, registryVars, wgcVars, navVars, physVars, gwVars,
    frameVars, focusVars>>
notGSM == <<busVars, workerVars, registryVars, wgcVars, navVars, physVars, gwVars,
    frameVars, focusVars>>
notWorker == <<busVars, gsmVars, registryVars, wgcVars, navVars, physVars, gwVars,
    frameVars, focusVars>>
notRegistry == <<busVars, gsmVars, workerVars, wgcVars, navVars, physVars, gwVars,
    frameVars, focusVars>>
notWgc == <<busVars, gsmVars, workerVars, registryVars, navVars, physVars, gwVars, focusVars>>
notFocus == <<gsmVars, workerVars, registryVars, wgcVars, navVars, physVars, gwVars,
    frameVars>>
notNav == <<busVars, gsmVars, workerVars, registryVars, wgcVars, physVars, gwVars,
    frameVars, focusVars>>
notPhys == <<busVars, gsmVars, workerVars, registryVars, wgcVars, navVars, gwVars,
    frameVars, focusVars>>
notGw == <<busVars, gsmVars, workerVars, registryVars, wgcVars, navVars, physVars,
    frameVars, focusVars>>

-----------------------------------------------------------------------------
(***************************************************************************)
(* IntentBus                                                               *)
(***************************************************************************)

\* Bounds of the bus model.
MaxSubscribes == 3
MaxEmits == 2

Intents == {"PAN", "ZOOM"}
Wildcard == "*"
Kinds == Intents \cup {Wildcard}
Callbacks == {"h1", "h2"}
Subscriptions == Kinds \X Callbacks
\* What a callback does when it is invoked: return, throw, or call
\* intentBus.pause() (as InventInteractionAdapter.handlePause does).
Behaviours == {"ok", "throw", "pause"}
NoEvent == [intent |-> "none", id |-> 0]

Has(seq, x) == \E i \in 1..Len(seq) : seq[i] = x
Without(seq, x) == SelectSeq(seq, LAMBDA y : y # x)
RECURSIVE SumOver(_, _)
SumOver(f, S) == IF S = {} THEN 0
                 ELSE LET x == CHOOSE y \in S : TRUE IN f[x] + SumOver(f, S \ {x})

\* Set.prototype.add: appends when absent, keeps the position when present.
SetAdd(seq, x) == IF Has(seq, x) THEN seq ELSE Append(seq, x)

\* subscriberCount(intent): this.listeners.get(intent)?.size || 0
subscriberCount(k) == Len(listeners[k])

\* Closures over the same (intent, callback) behave alike, so unsubs keeps,
\* per (intent, callback), how many closures have not been called yet
\* (fresh) and how many have been called at least once (stale).
ClosuresMade == SumOver([s \in Subscriptions |-> unsubs[s].fresh + unsubs[s].stale], Subscriptions)

\* subscribe(intent, callback): adds the callback to the kind's set and
\* returns a closure over (intent, callback).
Subscribe(k, cb) ==
    /\ ClosuresMade < MaxSubscribes
    /\ listeners' = [listeners EXCEPT ![k] = SetAdd(@, cb)]
    /\ unsubs' = [unsubs EXCEPT ![<<k, cb>>].fresh = @ + 1]
    /\ calls' = <<>> /\ errors' = 0 /\ emitThrew' = FALSE /\ again' = FALSE
    /\ UNCHANGED <<lastEvent, paused, nextId>>

\* The listeners after the closure returned by subscribe(k, cb) has run:
\* callbacks.delete(callback), and the key is dropped when the set is empty
\* (an absent key and an empty set are both the empty sequence here).
UnsubscribeEffect(ls, k, cb) == [ls EXCEPT ![k] = Without(@, cb)]

\* The first call of a closure returned by subscribe(k, cb).
Unsubscribe(k, cb) ==
    /\ unsubs[<<k, cb>>].fresh > 0
    /\ listeners' = UnsubscribeEffect(listeners, k, cb)
    /\ unsubs' = [unsubs EXCEPT ![<<k, cb>>].fresh = @ - 1, ![<<k, cb>>].stale = @ + 1]
    /\ calls' = <<>> /\ errors' = 0 /\ emitThrew' = FALSE /\ again' = FALSE
    /\ UNCHANGED <<lastEvent, paused, nextId>>

\* A further call of a closure returned by subscribe(k, cb): the same code.
UnsubscribeAgain(k, cb) ==
    /\ unsubs[<<k, cb>>].stale > 0
    /\ listeners' = UnsubscribeEffect(listeners, k, cb)
    /\ calls' = <<>> /\ errors' = 0 /\ emitThrew' = FALSE /\ again' = TRUE
    /\ UNCHANGED <<unsubs, lastEvent, paused, nextId>>

\* A callback invocation without the try/catch: the exception leaves emit.
InvokeUncaught(cb, beh, acc) ==
    [acc EXCEPT !.called = Append(@, cb),
                !.thrown = (beh[cb] = "throw"),
                !.paused = IF beh[cb] = "pause" THEN TRUE ELSE @]

\* One callback invocation inside emit's forEach: try { callback(event) }
\* catch (error) { console.error(...) }.  acc is the running effect of emit.
InvokeCaught(cb, beh, acc) ==
    [acc EXCEPT !.called = Append(@, cb),
                !.errors = IF beh[cb] = "throw" THEN @ + 1 ELSE @,
                !.paused = IF beh[cb] = "pause" THEN TRUE ELSE @]

\* Set.prototype.forEach over the callbacks of one kind; an exception that
\* escapes a callback invocation ends the iteration.
RECURSIVE ForEachCallback(_, _, _)
ForEachCallback(cbs, beh, acc) ==
    IF cbs = <<>> \/ acc.thrown THEN acc
    ELSE ForEachCallback(Tail(cbs), beh, InvokeCaught(Head(cbs), beh, acc))

\* emit without the paused check.
EmitIgnoresPause(p) == FALSE

\* if (this.paused) return;
EmitIsNoOp(p) == p

\* The notification passes in the wrong order: '*' before event.intent.
NotifyWildcardFirst(ls, intent, beh, acc) ==
    ForEachCallback(ls[intent], beh, ForEachCallback(ls[Wildcard], beh, acc))

\* The two notification passes of emit: the listeners of event.intent, then
\* the listeners of '*'.
NotifyAll(ls, intent, beh, acc) ==
    ForEachCallback(ls[Wildcard], beh, ForEachCallback(ls[intent], beh, acc))

\* emit(event)
Emit(intent, beh) ==
    /\ nextId < MaxEmits
    /\ nextId' = nextId + 1
    /\ again' = FALSE
    /\ LET ev == [intent |-> intent, id |-> nextId + 1]
           acc0 == [called |-> <<>>, errors |-> 0, paused |-> paused, thrown |-> FALSE]
           acc == NotifyAll(listeners, intent, beh, acc0)
       IN  IF EmitIsNoOp(paused)
           THEN /\ calls' = <<>> /\ errors' = 0 /\ emitThrew' = FALSE
                /\ UNCHANGED <<lastEvent, paused>>
           ELSE /\ lastEvent' = ev
                /\ calls' = [i \in 1..Len(acc.called) |-> <<acc.called[i], ev.id>>]
                /\ errors' = acc.errors
                /\ paused' = acc.paused
                /\ emitThrew' = acc.thrown
    /\ UNCHANGED <<listeners, unsubs>>

\* pause()
Pause ==
    /\ paused' = TRUE
    /\ calls' = <<>> /\ errors' = 0 /\ emitThrew' = FALSE /\ again' = FALSE
    /\ UNCHANGED <<listeners, lastEvent, unsubs, nextId>>

\* resume()
Resume ==
    /\ paused' = FALSE
    /\ calls' = <<>> /\ errors' = 0 /\ emitThrew' = FALSE /\ again' = FALSE
    /\ UNCHANGED <<listeners, lastEvent, unsubs, nextId>>

\* new IntentBus()
InitBus ==
    /\ listeners = [k \in Kinds |-> <<>>]
    /\ lastEvent = NoEvent
    /\ paused = FALSE
    /\ unsubs = [s \in Subscriptions |-> [fresh |-> 0, stale |-> 0]]
    /\ calls = <<>>
    /\ errors = 0
    /\ emitThrew = FALSE
    /\ again = FALSE
    /\ nextId = 0

-----------------------------------------------------------------------------
(***************************************************************************)
(* Claims about the IntentBus (checked under SpecBus)                      *)
(***************************************************************************)

\* A step that is an emit() call: the only operation that counts events.
IsEmitStep == nextId' = nextId + 1

\* The invocations emit owes for an event: the callbacks of the event's
\* kind in subscription order, then those of '*', each with this event.
Owed(ls, intent, id) ==
    [i \in 1..Len(ls[intent]) |-> <<ls[intent][i], id>>]
        \o [i \in 1..Len(ls[Wildcard]) |-> <<ls[Wildcard][i], id>>]

\* C1: emit() while the bus is paused invokes no handler and leaves the bus
\* as it was; the dropped event is never delivered later (no operation but
\* an emit on an unpaused bus invokes handlers, and every invocation carries
\* the event being emitted, never an earlier one); an emit() on an unpaused
\* bus (so also after resume()) records the event and reaches its handlers.
C1_PausedEmitDropped ==
    [][ /\ (IsEmitStep /\ paused) =>
              (calls' = <<>> /\ lastEvent' = lastEvent /\ paused' /\ errors' = 0)
        /\ (~IsEmitStep) => calls' = <<>>
        /\ \A i \in 1..Len(calls') : calls'[i][2] = nextId' /\ ~paused
        /\ (IsEmitStep /\ ~paused) =>
              /\ lastEvent'.id = nextId'
              /\ Len(calls') = subscriberCount(lastEvent'.intent) + subscriberCount(Wildcard)
      ]_vars

\* C1 witness: event 1 was delivered and recorded, then event 2 was emitted
\* on the paused bus with a '*' subscriber present and was dropped.
C1_Witness ==
    /\ paused /\ nextId = 2 /\ lastEvent.id = 1
    /\ listeners[Wildcard] # <<>> /\ calls = <<>>
    /\ unsubs[<<Wildcard, "h1">>].stale = 0 /\ unsubs[<<Wildcard, "h2">>].stale = 0
    /\ ClosuresMade = Len(listeners[Wildcard])

\* C2: emit() never throws, paused or not and with or without subscribers,
\* and on an unpaused bus every callback subscribed to the event's kind or
\* to '*' is invoked with the event, whichever callbacks throw.
C2_ThrowIsolated ==
    [][ IsEmitStep =>
          /\ ~emitThrew'
          /\ ~paused =>
               \A k \in {lastEvent'.intent, Wildcard} :
                  \A j \in 1..Len(listeners[k]) :
                     \E i \in 1..Len(calls') : calls'[i] = <<listeners[k][j], nextId'>>
      ]_vars

\* C2 witness: an emit in which every invoked callback threw (each throw was
\* logged), at least two callbacks were invoked, and emit returned normally.
C2_Witness ==
    /\ Len(calls) >= 2 /\ errors = Len(calls) /\ ~emitThrew
    /\ calls[1][1] # calls[2][1]

\* C3: emit(event) on an unpaused bus invokes exactly the callbacks of
\* event.intent in subscription order followed by the callbacks of '*' in
\* subscription order, once per subscription, and nothing else (callbacks
\* of another kind are not invoked); subscribe() keeps the order of the
\* callbacks already subscribed and places a new callback last.
C3_EmitOrder ==
    [][ /\ (IsEmitStep /\ ~paused) =>
              calls' = Owed(listeners, lastEvent'.intent, nextId')
        /\ \A k \in Kinds :
              Len(listeners'[k]) > Len(listeners[k]) =>
                 SubSeq(listeners'[k], 1, Len(listeners[k])) = listeners[k]
      ]_vars

\* C3 witness: an event was just delivered to two callbacks of its kind and
\* then to a '*' callback.
C3_Witness ==
    /\ lastEvent.id = nextId /\ nextId > 0
    /\ Len(listeners[lastEvent.intent]) = 2 /\ Len(listeners[Wildcard]) = 1
    /\ calls = Owed(listeners, lastEvent.intent, nextId)
    /\ calls[1][1] # calls[2][1]

\* C4 (the claim as stated): the first call of the closure returned by
\* subscribe(k, cb), made while cb is subscribed to k, removes cb from kind
\* k, makes subscriberCount(k) one less and leaves every other subscription
\* alone, and a further call of a closure changes nothing.
C4_UnsubscribeExact ==
    [][ /\ \A s \in Subscriptions :
              (unsubs'[s].stale = unsubs[s].stale + 1 /\ Has(listeners[s[1]], s[2])) =>
                 /\ ~Has(listeners'[s[1]], s[2])
                 /\ Len(listeners'[s[1]]) = Len(listeners[s[1]]) - 1
                 /\ listeners'[s[1]] = Without(listeners[s[1]], s[2])
                 /\ \A k \in Kinds \ {s[1]} : listeners'[k] = listeners[k]
        /\ again' => listeners' = listeners
      ]_vars

-----------------------------------------------------------------------------
(***************************************************************************)
(* GestureStateMachine                                                     *)
(***************************************************************************)

\* config.stateMachine (milliseconds)
holdDuration == 150
exitDuration == 300
cooldown == 500

\* Bound of the clock: update() is called until MaxElapsed ms after the start.
MaxElapsed == 1300
\* Date.now() at construction; any value of at least cooldown (the real
\* clock counts from 1970).
Clock0 == 2 * cooldown
\* The time that may pass between two update() calls.
FrameGaps == {0, 50, 100, 150, 300, 500}

\* The enabled gestures of config.vocabulary that the model follows.
Gestures == {"LOCK_MODE"}

IDLE == "IDLE"
POTENTIAL == "POTENTIAL"
ACTIVE == "ACTIVE"
EXIT_PENDING == "EXIT_PENDING"

\* this.states.get(gestureName) || { state: IDLE, startTime: 0, lastSeenTime: 0 }
FreshState == [state |-> IDLE, startTime |-> 0, lastSeenTime |-> 0]

neverInCooldown(lastExit, t) == FALSE

\* isInCooldown(gestureName, now), lastExit being this.cooldowns.get(gestureName) || 0
isInCooldown(lastExit, t) == t - lastExit < cooldown

holdAlwaysReached(startTime, t) == TRUE

\* now - current.startTime >= this.config.stateMachine.holdDuration
holdReached(startTime, t) == t - startTime >= holdDuration

\* now - current.startTime >= this.config.stateMachine.exitDuration
exitReached(startTime, t) == t - startTime >= exitDuration

\* The body of the switch for one gesture: the new record, whether the
\* gesture is added to activeGestures, and its cooldowns entry.
Transition(cur, lastExit, isSeen, t) ==
    CASE cur.state = IDLE ->
           IF isSeen /\ ~isInCooldown(lastExit, t)
           THEN [rec |-> [state |-> POTENTIAL, startTime |-> t, lastSeenTime |-> t],
                 active |-> FALSE, exit |-> lastExit]
           ELSE [rec |-> cur, active |-> FALSE, exit |-> lastExit]
      [] cur.state = POTENTIAL ->
           IF isSeen
           THEN IF holdReached(cur.startTime, t)
                THEN [rec |-> [state |-> ACTIVE, startTime |-> t, lastSeenTime |-> t],
                      active |-> FALSE, exit |-> lastExit]
                ELSE [rec |-> [cur EXCEPT !.lastSeenTime = t],
                      active |-> FALSE, exit |-> lastExit]
           ELSE [rec |-> [cur EXCEPT !.state = IDLE], active |-> FALSE, exit |-> lastExit]
      [] cur.state = ACTIVE ->
           IF isSeen
           THEN [rec |-> [cur EXCEPT !.lastSeenTime = t], active |-> TRUE, exit |-> lastExit]
           ELSE [rec |-> [cur EXCEPT !.state = EXIT_PENDING, !.startTime = t],
                 active |-> FALSE, exit |-> lastExit]
      [] cur.state = EXIT_PENDING ->
           IF isSeen
           THEN [rec |-> [cur EXCEPT !.state = ACTIVE, !.lastSeenTime = t],
                 active |-> TRUE, exit |-> lastExit]
           ELSE IF exitReached(cur.startTime, t)
                THEN [rec |-> [cur EXCEPT !.state = IDLE], active |-> FALSE, exit |-> t]
                ELSE [rec |-> cur, active |-> FALSE, exit |-> lastExit]

\* update(detectedGestures), called gap ms after the previous call.
Update(det, gap) ==
    /\ now + gap <= Clock0 + MaxElapsed
    /\ now' = now + gap
    /\ detected' = det
    /\ lastOp' = "update"
    /\ LET out == [g \in Gestures |-> Transition(states[g], cooldowns[g], g \in det, now + gap)]
       IN  /\ states' = [g \in Gestures |-> out[g].rec]
           /\ cooldowns' = [g \in Gestures |-> out[g].exit]
           /\ activeGestures' = {g \in Gestures : out[g].active}
    /\ runStart' = [g \in Gestures |->
                       IF g \notin det THEN 0
                       ELSE IF runStart[g] = 0 THEN now + gap ELSE runStart[g]]
    /\ held' = [g \in Gestures |->
                   /\ ~(states[g].state = EXIT_PENDING /\ g \notin det
                          /\ exitReached(states[g].startTime, now + gap))
                   /\ \/ held[g]
                      \/ g \in det /\ runStart[g] # 0 /\ now + gap - runStart[g] >= holdDuration]

\* reset()
Reset ==
    /\ lastOp = "update"
    /\ lastOp' = "reset"
    /\ states' = [g \in Gestures |-> FreshState]
    /\ cooldowns' = [g \in Gestures |-> 0]
    /\ detected' = {}
    /\ activeGestures' = {}
    /\ runStart' = [g \in Gestures |-> 0]
    /\ held' = [g \in Gestures |-> FALSE]
    /\ UNCHANGED now

\* new GestureStateMachine(config)
InitGSM ==
    /\ now = Clock0
    /\ states = [g \in Gestures |-> FreshState]
    /\ cooldowns = [g \in Gestures |-> 0]
    /\ detected = {}
    /\ activeGestures = {}
    /\ lastOp = "new"
    /\ runStart = [g \in Gestures |-> 0]
    /\ held = [g \in Gestures |-> FALSE]

-----------------------------------------------------------------------------
(***************************************************************************)
(* Claims about the GestureStateMachine (checked under SpecGSM)            *)
(***************************************************************************)

\* C5: a gesture is in the set returned by update() only if an unbroken run
\* of detections has spanned holdDuration; a gesture in POTENTIAL that an
\* update does not detect is IDLE after it; the hold timer of a gesture
\* that enters POTENTIAL starts at that update, and never predates the
\* current run of detections.
C5_ShortHoldNeverActive ==
    [][ \A g \in Gestures :
          /\ g \in activeGestures' => held'[g]
          /\ (states[g].state = POTENTIAL /\ g \notin detected') => states'[g].state = IDLE
          /\ (states[g].state = IDLE /\ states'[g].state = POTENTIAL) =>
                 states'[g].startTime = now'
          /\ states'[g].state = POTENTIAL =>
                 (g \in detected' /\ runStart'[g] # 0 /\ states'[g].startTime >= runStart'[g])
      ]_vars

\* A gesture was detected in two updates less than holdDuration apart, was
\* then missed and is IDLE again, never having been reported.
C5_Witness ==
    \E g \in Gestures :
       /\ states[g].state = IDLE
       /\ states[g].lastSeenTime > states[g].startTime
       /\ states[g].lastSeenTime - states[g].startTime < holdDuration
       /\ cooldowns[g] = 0
       /\ g \notin detected
       /\ ~held[g]

\* C6 (the claim as stated): a gesture that has never exited and is detected
\* by every update over a span of at least holdDuration is ACTIVE, and a
\* gesture that an update detects and leaves ACTIVE is in the set that
\* update returns, the update that reaches the hold duration included.
C6_ActiveReported ==
    \A g \in Gestures :
       /\ (g \in detected /\ cooldowns[g] = 0 /\ runStart[g] # 0
             /\ now - runStart[g] >= holdDuration) => states[g].state = ACTIVE
       /\ (states[g].state = ACTIVE /\ g \in detected) => g \in activeGestures

\* C7 (the claim as stated): an update that does not detect a gesture that
\* was ACTIVE, less than exitDuration after detection dropped, has the
\* gesture in the set it returns; an update that detects a gesture in
\* EXIT_PENDING makes it ACTIVE and reports it, whatever the time held.
C7_DropoutStillReported ==
    [][ \A g \in Gestures :
          /\ (states'[g].state = EXIT_PENDING /\ lastOp' = "update"
                /\ now' - states'[g].startTime < exitDuration) => g \in activeGestures'
          /\ (states[g].state = EXIT_PENDING /\ g \in detected' /\ lastOp' = "update") =>
                 (states'[g].state = ACTIVE /\ g \in activeGestures')
      ]_vars

\* C8: an update that does not detect a gesture in EXIT_PENDING, at least
\* exitDuration after detection dropped, makes it IDLE and records the time
\* as its exit time; until cooldown ms after a recorded exit the gesture is
\* IDLE and not in the returned set, detected or not; a gesture enters
\* POTENTIAL only once the cooldown is over, and goes from there to ACTIVE
\* only at an update that detects it at least holdDuration later.
C8_ExitAndCooldown ==
    [][ \A g \in Gestures :
          /\ (states[g].state = EXIT_PENDING /\ g \notin detected' /\ lastOp' = "update"
                /\ now' - states[g].startTime >= exitDuration) =>
                 (states'[g].state = IDLE /\ cooldowns'[g] = now')
          /\ (cooldowns'[g] # 0 /\ now' - cooldowns'[g] < cooldown) =>
                 (states'[g].state = IDLE /\ g \notin activeGestures')
          /\ (states'[g].state = POTENTIAL /\ cooldowns'[g] # 0) =>
                 states'[g].startTime >= cooldowns'[g] + cooldown
          /\ (states[g].state \in {IDLE, POTENTIAL} /\ states'[g].state = ACTIVE) =>
                 /\ states[g].state = POTENTIAL
                 /\ g \in detected'
                 /\ now' - states[g].startTime >= holdDuration
          /\ g \in activeGestures' => held'[g]
      ]_vars

\* A gesture that exited is detected again during its cooldown.
C8_Witness ==
    \E g \in Gestures :
       /\ cooldowns[g] # 0
       /\ now - cooldowns[g] < cooldown
       /\ now > cooldowns[g]
       /\ g \in detected
       /\ lastOp = "update"
       /\ states[g].state = IDLE

-----------------------------------------------------------------------------
(***************************************************************************)
(* StateMachine of the gesture worker                                      *)
(***************************************************************************)

\* config.stateMachine as the worker receives it with INIT (milliseconds)
workerHoldDuration == 100
gracePeriod == 250

\* Bound of the worker's clock: PROCESS messages arrive until
\* MaxWorkerElapsed ms after the start.
MaxWorkerElapsed == 500
\* The time that may pass between two PROCESS messages.
WorkerFrameGaps == {0, 50, 100, 150, 300}

\* The names the PROCESS handler puts into rawDetected that the model follows.
StateNames == {"PRECISION_ROTATE", "LOCK_MODE"}

\* A name with no entry in this.activeStates.
NoEntry == [startTime |-> 0, lastSeen |-> 0]

\* now - stateData.startTime > this.config.holdDuration
heldLongEnough(startTime, t) == t - startTime > workerHoldDuration

\* timeSinceSeen > (this.config.gracePeriod || 0)
graceExpired(lastSeen, t) == t - lastSeen > gracePeriod

\* What update() does with one name: its entry afterwards and whether it is
\* added to the returned set.
WorkerTransition(entry, isDetected, t) ==
    IF isDetected
    THEN LET stateData == IF entry = NoEntry
                          THEN [startTime |-> t, lastSeen |-> t]
                          ELSE [entry EXCEPT !.lastSeen = t]
         IN  [entry |-> stateData, active |-> heldLongEnough(stateData.startTime, t)]
    ELSE IF entry = NoEntry
         THEN [entry |-> NoEntry, active |-> FALSE]
         ELSE IF graceExpired(entry.lastSeen, t)
              THEN [entry |-> NoEntry, active |-> FALSE]
              ELSE [entry |-> entry, active |-> heldLongEnough(entry.startTime, t)]

\* sm.update(rawDetected) of a PROCESS message, gap ms after the previous one.
WorkerUpdate(det, gap) ==
    /\ workerNow + gap <= Clock0 + MaxWorkerElapsed
    /\ workerNow' = workerNow + gap
    /\ detectedThisFrame' = det
    /\ LET out == [s \in StateNames |->
                      WorkerTransition(activeStates[s], s \in det, workerNow + gap)]
       IN  /\ activeStates' = [s \in StateNames |-> out[s].entry]
           /\ active' = {s \in StateNames : out[s].active}
    /\ firstDetected' = [s \in StateNames |->
          IF s \in det
          THEN IF firstDetected[s] = 0 THEN workerNow + gap ELSE firstDetected[s]
          ELSE IF workerNow + gap - lastDetected[s] > gracePeriod THEN 0 ELSE firstDetected[s]]
    /\ lastDetected' = [s \in StateNames |->
          IF s \in det
          THEN workerNow + gap
          ELSE IF workerNow + gap - lastDetected[s] > gracePeriod THEN 0 ELSE lastDetected[s]]

\* onmessage INIT: sm = new StateMachine(config.stateMachine)
WorkerInit ==
    /\ activeStates # [s \in StateNames |-> NoEntry]
    /\ activeStates' = [s \in StateNames |-> NoEntry]
    /\ detectedThisFrame' = {}
    /\ active' = {}
    /\ firstDetected' = [s \in StateNames |-> 0]
    /\ lastDetected' = [s \in StateNames |-> 0]
    /\ UNCHANGED workerNow

InitWorker ==
    /\ workerNow = Clock0
    /\ activeStates = [s \in StateNames |-> NoEntry]
    /\ detectedThisFrame = {}
    /\ active = {}
    /\ firstDetected = [s \in StateNames |-> 0]
    /\ lastDetected = [s \in StateNames |-> 0]

-----------------------------------------------------------------------------
(***************************************************************************)
(* Claims about the worker's StateMachine (checked under SpecWorker)       *)
(***************************************************************************)

\* C9 (the claim as stated): a name is in the set returned by update() only
\* if its detections, with no miss later than gracePeriod after the latest
\* of them, span more than holdDuration; an update that misses a name more
\* than gracePeriod after its latest detection does not report it and drops
\* its entry, and a name with no entry is not reported by the update that
\* detects it first.
C9_WorkerActiveOnlyIfHeld ==
    [][ \A s \in StateNames :
          /\ s \in active' =>
                 (firstDetected'[s] # 0
                    /\ lastDetected'[s] - firstDetected'[s] > workerHoldDuration)
          /\ (activeStates[s] # NoEntry /\ s \notin detectedThisFrame'
                /\ workerNow' - activeStates[s].lastSeen > gracePeriod) =>
                 (s \notin active' /\ activeStates'[s] = NoEntry)
          /\ (activeStates[s] = NoEntry /\ s \in detectedThisFrame') =>
                 (s \notin active' /\ activeStates'[s].startTime = workerNow')
      ]_vars

-----------------------------------------------------------------------------
(***************************************************************************)
(* Feature registry and the lifecycle of the controllers it creates        *)
(***************************************************************************)

\* Bound: initializeFeatures() starts at most MaxAttempts attempts.
MaxAttempts == 3
InitIds == 1..MaxAttempts

\* An attempt that has not begun.
NoAttempt == [pc |-> "idle", initOk |-> FALSE, result |-> "pending"]

\* No controller constructed.
NoController ==
    [state |-> "none", isActive |-> FALSE, isInitialized |-> FALSE,
     stream |-> "none", worker |-> "none", destroyed |-> FALSE]

\* new WebcamGestureController(gestureConfig, intentBus); the constructor of
\* the worker-based controller creates the gesture worker.
NewController ==
    [state |-> "idle", isActive |-> FALSE, isInitialized |-> FALSE,
     stream |-> "none", worker |-> "running", destroyed |-> FALSE]

\* GestureController.setState(state, error)
setState(c, st) ==
    [c EXCEPT !.state = st,
              !.isActive = IF st = "active" THEN TRUE
                           ELSE IF st \in {"error", "permission_denied"} THEN FALSE
                           ELSE @]

\* WebcamGestureController.start()
start(c) ==
    IF ~c.isInitialized THEN c
    ELSE setState([c EXCEPT !.isActive = TRUE], "active")

\* WebcamGestureController.stop()
stop(c) == setState([c EXCEPT !.isActive = FALSE], "idle")

\* WebcamGestureController.destroy()
destroy(c) ==
    [stop(c) EXCEPT !.stream = IF @ = "live" THEN "stopped" ELSE @,
                    !.worker = IF @ = "running" THEN "terminated" ELSE @,
                    !.isInitialized = FALSE,
                    !.destroyed = TRUE]

neverSuperseded(initId, current) == FALSE

\* initId !== currentInitId
superseded(initId, current) == initId # current

\* What initializeFeatures() returns for an attempt whose
\* initializeGestureFeature() returned r.
Returned(initId, current, r) == IF superseded(initId, current) THEN "null" ELSE r

\* initializeFeatures() while 'gesture' is registered: returns the registered controller.
InitializeFeaturesAgain ==
    /\ activeControllers.gesture # 0
    /\ UNCHANGED registryVars

\* initializeFeatures() up to the await of the imports.
InitializeFeatures ==
    /\ activeControllers.gesture = 0
    /\ initCount < MaxAttempts
    /\ initCount' = initCount + 1
    /\ currentInitId' = initCount + 1
    /\ attempts' = [attempts EXCEPT ![initCount + 1].pc = "imports"]
    /\ UNCHANGED <<activeControllers, controllers, adapters>>

\* The imports resolve: supersede check, construction, initialize() up to
\* its await of getUserMedia.
ImportsResolve(i) ==
    /\ attempts[i].pc = "imports"
    /\ IF superseded(i, currentInitId)
       THEN /\ attempts' = [attempts EXCEPT ![i].pc = "done", ![i].result = "null"]
            /\ UNCHANGED controllers
       ELSE /\ controllers' = [controllers EXCEPT ![i] = setState(NewController, "initializing")]
            /\ attempts' = [attempts EXCEPT ![i].pc = "getUserMedia"]
    /\ UNCHANGED <<initCount, currentInitId, activeControllers, adapters>>

\* The imports reject: the catch block returns a failure.
ImportsReject(i) ==
    /\ attempts[i].pc = "imports"
    /\ attempts' = [attempts EXCEPT ![i].pc = "done",
                                    ![i].result = Returned(i, currentInitId, "failure")]
    /\ UNCHANGED <<initCount, currentInitId, activeControllers, controllers, adapters>>

\* The catch block of initialize().
InitializeFailed(c, notAllowed) ==
    setState(c, IF notAllowed THEN "permission_denied" ELSE "error")

\* getUserMedia resolves: the stream is live, initialize() goes on to video.play().
GetUserMediaResolve(i) ==
    /\ attempts[i].pc = "getUserMedia"
    /\ controllers' = [controllers EXCEPT ![i].stream = "live"]
    /\ attempts' = [attempts EXCEPT ![i].pc = "play"]
    /\ UNCHANGED <<initCount, currentInitId, activeControllers, adapters>>

\* getUserMedia rejects, with NotAllowedError or another error.
GetUserMediaReject(i, notAllowed) ==
    /\ attempts[i].pc = "getUserMedia"
    /\ controllers' = [controllers EXCEPT ![i] = InitializeFailed(@, notAllowed)]
    /\ attempts' = [attempts EXCEPT ![i].pc = "resolved", ![i].initOk = FALSE]
    /\ UNCHANGED <<initCount, currentInitId, activeControllers, adapters>>

\* video.play() resolves: initialize() goes on to initMediaPipe().
PlayResolve(i) ==
    /\ attempts[i].pc = "play"
    /\ attempts' = [attempts EXCEPT ![i].pc = "initMediaPipe"]
    /\ UNCHANGED <<initCount, currentInitId, activeControllers, controllers, adapters>>

\* video.play() or initMediaPipe() rejects.
SetupReject(i, notAllowed) ==
    /\ attempts[i].pc \in {"play", "initMediaPipe"}
    /\ controllers' = [controllers EXCEPT ![i] = InitializeFailed(@, notAllowed)]
    /\ attempts' = [attempts EXCEPT ![i].pc = "resolved", ![i].initOk = FALSE]
    /\ UNCHANGED <<initCount, currentInitId, activeControllers, adapters>>

\* initMediaPipe() resolves: initialize() returns success.
InitMediaPipeResolve(i) ==
    /\ attempts[i].pc = "initMediaPipe"
    /\ controllers' = [controllers EXCEPT ![i] = setState([@ EXCEPT !.isInitialized = TRUE], "idle")]
    /\ attempts' = [attempts EXCEPT ![i].pc = "resolved", ![i].initOk = TRUE]
    /\ UNCHANGED <<initCount, currentInitId, activeControllers, adapters>>

\* initializeGestureFeature() after await controller.initialize(): the final
\* check, then start and registration, up to the await of the adapter import.
AfterInitialize(i) ==
    /\ attempts[i].pc = "resolved"
    /\ IF superseded(i, currentInitId)
       THEN /\ controllers' = [controllers EXCEPT ![i] = destroy(@)]
            /\ attempts' = [attempts EXCEPT ![i].pc = "done", ![i].result = "null"]
            /\ UNCHANGED activeControllers
       ELSE IF attempts[i].initOk
            THEN /\ controllers' = [controllers EXCEPT ![i] = start(@)]
                 /\ activeControllers' = [activeControllers EXCEPT !.gesture = i]
                 /\ attempts' = [attempts EXCEPT ![i].pc = "adapterImport"]
            ELSE /\ attempts' = [attempts EXCEPT ![i].pc = "done", ![i].result = "failure"]
                 /\ UNCHANGED <<controllers, activeControllers>>
    /\ UNCHANGED <<initCount, currentInitId, adapters>>

\* The adapter import resolves: the adapter is constructed, started and registered.
AdapterImportResolve(i) ==
    /\ attempts[i].pc = "adapterImport"
    /\ adapters' = [adapters EXCEPT ![i] = "started"]
    /\ activeControllers' = [activeControllers EXCEPT !.inventAdapter = i]
    /\ attempts' = [attempts EXCEPT ![i].pc = "done",
                                    ![i].result = Returned(i, currentInitId, "success")]
    /\ UNCHANGED <<initCount, currentInitId, controllers>>

\* The adapter import rejects: the catch block returns a failure.
AdapterImportReject(i) ==
    /\ attempts[i].pc = "adapterImport"
    /\ attempts' = [attempts EXCEPT ![i].pc = "done",
                                    ![i].result = Returned(i, currentInitId, "failure")]
    /\ UNCHANGED <<initCount, currentInitId, activeControllers, controllers, adapters>>

\* cleanupFeatures(): the registered controller is destroyed; the adapter
\* has no destroy(), the TypeError is caught and the adapter stays as it is.
CleanupFeatures ==
    /\ currentInitId' = 0
    /\ controllers' = [i \in InitIds |->
                          IF activeControllers.gesture = i THEN destroy(controllers[i])
                          ELSE controllers[i]]
    /\ activeControllers' = [gesture |-> 0, inventAdapter |-> 0]
    /\ UNCHANGED <<initCount, attempts, adapters>>

InitRegistry ==
    /\ initCount = 0
    /\ currentInitId = 0
    /\ activeControllers = [gesture |-> 0, inventAdapter |-> 0]
    /\ attempts = [i \in InitIds |-> NoAttempt]
    /\ controllers = [i \in InitIds |-> NoController]
    /\ adapters = [i \in InitIds |-> "none"]

-----------------------------------------------------------------------------
(***************************************************************************)
(* Claims about the feature registry (checked under SpecRegistry)          *)
(***************************************************************************)

\* The controllers that have been started and not destroyed.
Running == {i \in InitIds : controllers[i].isActive /\ ~controllers[i].destroyed}

\* C10: an attempt that is no longer the current one when its imports or
\* its controller.initialize() resolve registers and starts nothing and
\* leaves no controller that is not destroyed; a controller is started only
\* while it is the registered one, so at most one controller is started and
\* not destroyed at any time.
C10_StaleAttemptDiscarded ==
    [][ /\ \A i \in InitIds :
             (attempts[i].pc \in {"imports", "resolved"} /\ attempts'[i].pc # attempts[i].pc
                /\ i # currentInitId) =>
                 /\ activeControllers' = activeControllers
                 /\ ~controllers'[i].isActive
                 /\ controllers'[i] = NoController \/ controllers'[i].destroyed
                 /\ attempts'[i].pc = "done"
        /\ \A i \in InitIds :
             (controllers'[i].isActive /\ ~controllers'[i].destroyed) =>
                 activeControllers'.gesture = i
        /\ \A i, j \in InitIds :
             (controllers'[i].isActive /\ ~controllers'[i].destroyed
                /\ controllers'[j].isActive /\ ~controllers'[j].destroyed) => i = j
      ]_vars

\* The controller of a superseded attempt has been destroyed without ever
\* being started, and the controller of a later attempt is running.
C10_Witness ==
    \E i, j \in InitIds :
       /\ i < j
       /\ controllers[i].destroyed
       /\ controllers[i].stream = "stopped"
       /\ attempts[i].result = "null"
       /\ adapters[i] = "none"
       /\ Running = {j}
       /\ activeControllers.gesture = j

-----------------------------------------------------------------------------
(***************************************************************************)
(* Worker-based WebcamGestureController (src/unnamed/part_008)             *)
(***************************************************************************)

\* new WebcamGestureController(config, intentBus): the base fields, the
\* resource fields at null, and the worker created by initWorker().
WgcNew ==
    [state |-> "idle", errorMessage |-> "null", isActive |-> FALSE, isInitialized |-> FALSE,
     stream |-> "null", video |-> "null", hands |-> "null", camera |-> "null",
     worker |-> "running"]

\* GestureController.setState(state, error)
WgcSetState(c, st, err) ==
    [c EXCEPT !.state = st,
              !.errorMessage = err,
              !.isActive = IF st = "active" THEN TRUE
                           ELSE IF st \in {"error", "permission_denied"} THEN FALSE
                           ELSE @]

\* start()
WgcStarted(c) ==
    [WgcSetState([c EXCEPT !.isActive = TRUE], "active", "null")
        EXCEPT !.camera = IF @ = "null" THEN @ ELSE "running"]

\* stop()
WgcStopped(c) ==
    [WgcSetState([c EXCEPT !.isActive = FALSE], "idle", "null")
        EXCEPT !.camera = IF @ = "null" THEN @ ELSE "stopped"]

WgcDestroyedKeepsWorker(c) ==
    [WgcStopped(c) EXCEPT !.stream = IF @ = "live" THEN "stopped" ELSE @,
                          !.hands = IF @ = "open" THEN "closed" ELSE @,
                          !.video = IF @ = "attached" THEN "removed" ELSE @,
                          !.isInitialized = FALSE]

\* destroy(): stop(), then the tracks are stopped, the model closed, the
\* worker terminated and the video element removed; the fields keep their
\* references.
WgcDestroyed(c) ==
    [WgcStopped(c) EXCEPT !.stream = IF @ = "live" THEN "stopped" ELSE @,
                          !.hands = IF @ = "open" THEN "closed" ELSE @,
                          !.worker = "terminated",
                          !.video = IF @ = "attached" THEN "removed" ELSE @,
                          !.isInitialized = FALSE]

\* The catch block of initialize(): the state and error it reports for a
\* failure that is (or is not) a NotAllowedError.
WgcFailure(notAllowed) == [state |-> "error", error |-> "INITIALIZATION_FAILED"]

\* initialize() up to its await of getUserMedia.
WgcInitialize ==
    /\ wgcInit.pc = "new"
    /\ wgc' = WgcSetState(wgc, "initializing", "null")
    /\ wgcInit' = [wgcInit EXCEPT !.pc = "getUserMedia"]
    /\ wgcDestroys' = 0
    /\ UNCHANGED <<wgcPos, emitted, platformLock, lockRun>>

\* getUserMedia resolves: the stream is stored, the video element created
\* and attached, up to the await of video.play().
WgcGetUserMediaResolve ==
    /\ wgcInit.pc = "getUserMedia"
    /\ wgc' = [wgc EXCEPT !.stream = "live", !.video = "attached"]
    /\ wgcInit' = [wgcInit EXCEPT !.pc = "play"]
    /\ wgcDestroys' = 0
    /\ UNCHANGED <<wgcPos, emitted, platformLock, lockRun>>

\* video.play() resolves: up to the awaits of initMediaPipe().
WgcPlayResolve ==
    /\ wgcInit.pc = "play"
    /\ wgcInit' = [wgcInit EXCEPT !.pc = "initMediaPipe"]
    /\ UNCHANGED wgc
    /\ wgcDestroys' = 0
    /\ UNCHANGED <<wgcPos, emitted, platformLock, lockRun>>

\* initMediaPipe() resolves: Hands and Camera exist, initialize() returns success.
WgcInitMediaPipeResolve ==
    /\ wgcInit.pc = "initMediaPipe"
    /\ wgc' = WgcSetState([wgc EXCEPT !.hands = "open", !.camera = "stopped",
                                      !.isInitialized = TRUE], "idle", "null")
    /\ wgcInit' = [wgcInit EXCEPT !.pc = "settled", !.result = "success"]
    /\ wgcDestroys' = 0
    /\ UNCHANGED <<wgcPos, emitted, platformLock, lockRun>>

\* getUserMedia, video.play() or initMediaPipe() rejects, with a
\* NotAllowedError (camera access refused; getUserMedia only) or another error.
WgcAcquisitionReject(notAllowed) ==
    /\ wgcInit.pc \in {"getUserMedia", "play", "initMediaPipe"}
    /\ notAllowed => wgcInit.pc = "getUserMedia"
    /\ LET f == WgcFailure(notAllowed)
       IN  /\ wgc' = WgcSetState(wgc, f.state, f.error)
           /\ wgcInit' = [pc |-> "settled", result |-> f.error,
                          cause |-> IF notAllowed THEN "NotAllowedError" ELSE "Error"]
    /\ wgcDestroys' = 0
    /\ UNCHANGED <<wgcPos, emitted, platformLock, lockRun>>

\* start()
WgcStart ==
    /\ wgc' = WgcStarted(wgc)
    /\ UNCHANGED wgcInit
    /\ wgcDestroys' = 0
    /\ UNCHANGED <<wgcPos, emitted, platformLock, lockRun>>

\* stop()
WgcStop ==
    /\ wgc' = WgcStopped(wgc)
    /\ UNCHANGED wgcInit
    /\ wgcDestroys' = 0
    /\ UNCHANGED <<wgcPos, emitted, platformLock, lockRun>>

\* destroy()
WgcDestroy ==
    /\ wgc' = WgcDestroyed(wgc)
    /\ UNCHANGED wgcInit
    /\ wgcDestroys' = IF wgcDestroys = 0 THEN 1 ELSE 2
    /\ UNCHANGED <<wgcPos, emitted, platformLock, lockRun>>

\* Positions and scales are in thousandths.
\* config.stabilization
panDeadzone == 5
rotateDeadzone == 3
zoomDeadzone == 2

\* The pos a RESULTS message may carry, and its zoomScale (0: none).
\* A position that is null.
NoPos == <<>>

ResultPositions == {<<500, 500>>, <<504, 500>>, <<504, 510>>, <<1100, 500>>}
ResultZoomScales == {0, 1001, 1050}
\* The names a RESULTS message may carry in activeStates, in the order they
\* are added to the worker's set.
ResultStates == <<"PRECISION_ROTATE", "LOCK_MODE", "NAV_PAN">>

Abs(n) == IF n < 0 THEN -n ELSE n

\* Math.max(0, Math.min(1, v))
Clamp01(v) == IF v < 0 THEN 0 ELSE IF v > 1000 THEN 1000 ELSE v

\* The intents one entry of activeStates makes handleWorkerResults() emit.
IntentsOfState(st, sp, lastPalm, zoomLevel) ==
    CASE st = "NAV_PAN" ->
           IF lastPalm # NoPos
              /\ (Abs(sp[1] - lastPalm[1]) > panDeadzone \/ Abs(sp[2] - lastPalm[2]) > panDeadzone)
           THEN <<[intent |-> "PAN",
                   a |-> ((sp[1] - lastPalm[1]) * 2) \div zoomLevel,
                   b |-> ((sp[2] - lastPalm[2]) * 2) \div zoomLevel]>>
           ELSE <<>>
      [] st = "PRECISION_ROTATE" ->
           IF lastPalm # NoPos /\ Abs(sp[1] - lastPalm[1]) > rotateDeadzone
           THEN <<[intent |-> "ROTATE", a |-> sp[1] - lastPalm[1], b |-> 0]>>
           ELSE <<>>
      [] st = "LOCK_MODE" -> <<[intent |-> "LOCK", a |-> 0, b |-> 0]>>
      [] OTHER -> <<>>

RECURSIVE IntentsOfStates(_, _, _, _, _)
IntentsOfStates(i, names, sp, lastPalm, zoomLevel) ==
    IF i > Len(ResultStates) THEN <<>>
    ELSE (IF ResultStates[i] \in names
          THEN IntentsOfState(ResultStates[i], sp, lastPalm, zoomLevel)
          ELSE <<>>)
         \o IntentsOfStates(i + 1, names, sp, lastPalm, zoomLevel)

\* InventInteractionAdapter.handleLock()
handleLock(p) == IF p.has THEN [p EXCEPT !.locked = ~@] ELSE p

RECURSIVE DeliverLocks(_, _)
\* What the LOCK intents of a sequence of emitted intents do to the platform.
DeliverLocks(seq, p) ==
    IF seq = <<>> THEN p
    ELSE DeliverLocks(Tail(seq), IF Head(seq).intent = "LOCK" THEN handleLock(p) ELSE p)

\* worker.onmessage: handleWorkerResults(data) for a RESULTS message.
WgcResults(names, pos, zoomScale) ==
    /\ wgc.worker = "running"
    /\ wgc.hands # "null"
    /\ LET sp == IF pos = NoPos THEN wgcPos.smoothedPosition
                 ELSE <<Clamp01(pos[1]), Clamp01(pos[2])>>
           hover == IF pos = NoPos THEN <<>>
                    ELSE <<[intent |-> "HOVER_FOCUS", a |-> sp[1], b |-> sp[2]]>>
           zoom == IF zoomScale # 0 /\ zoomScale # 1000
                      /\ Abs(zoomScale - 1000) > zoomDeadzone
                   THEN <<[intent |-> "ZOOM", a |-> zoomScale, b |-> 0]>>
                   ELSE <<>>
           out == hover \o IntentsOfStates(1, names, sp, wgcPos.lastPalm, wgcPos.zoomLevel)
                        \o zoom
           p == DeliverLocks(out, platformLock)
       IN  /\ emitted' = out
           /\ wgcPos' = [wgcPos EXCEPT !.smoothedPosition = sp, !.lastPalm = sp]
           /\ platformLock' = p
           /\ lockRun' = IF "LOCK_MODE" \notin names THEN 0
                         ELSE IF p.locked # platformLock.locked /\ lockRun < 2
                              THEN lockRun + 1 ELSE lockRun
    /\ wgcDestroys' = 0
    /\ UNCHANGED <<wgc, wgcInit>>

\* setZoomLevel(level)
WgcSetZoomLevel(level) ==
    /\ wgcPos.zoomLevel # level
    /\ wgcPos' = [wgcPos EXCEPT !.zoomLevel = level]
    /\ wgcDestroys' = 0
    /\ UNCHANGED <<wgc, wgcInit, emitted, platformLock, lockRun>>

InitWgc ==
    /\ wgc = WgcNew
    /\ wgcInit = [pc |-> "new", result |-> "pending", cause |-> "none"]
    /\ wgcDestroys = 0
    /\ wgcPos = [smoothedPosition |-> <<500, 500>>, lastPalm |-> NoPos, zoomLevel |-> 1]
    /\ emitted = <<>>
    /\ platformLock \in [has : BOOLEAN, locked : {FALSE}]
    /\ lockRun = 0

-----------------------------------------------------------------------------
(***************************************************************************)
(* Claims about the worker-based controller (checked under SpecWgc)        *)
(***************************************************************************)

\* C11 (the claim as stated): the promise of initialize() is never
\* rejected; when acquisition fails it settles with success false, status
\* state 'permission_denied' and error PERMISSION_DENIED if camera access
\* was refused, 'error' and INITIALIZATION_FAILED otherwise, and isActive
\* false.
C11_InitializeClassifiesFailure ==
    [][ (wgcInit.pc # "settled" /\ wgcInit'.pc = "settled") =>
          /\ wgcInit'.result # "rejected"
          /\ wgcInit'.cause = "NotAllowedError" =>
                 /\ wgcInit'.result = "PERMISSION_DENIED"
                 /\ wgc'.state = "permission_denied"
                 /\ wgc'.errorMessage = "PERMISSION_DENIED"
                 /\ ~wgc'.isActive
          /\ wgcInit'.cause = "Error" =>
                 /\ wgcInit'.result = "INITIALIZATION_FAILED"
                 /\ wgc'.state = "error"
                 /\ wgc'.errorMessage = "INITIALIZATION_FAILED"
                 /\ ~wgc'.isActive
      ]_vars

\* What destroy() leaves: not active, not initialized, no live stream, no
\* open model, no running worker or camera loop, no attached video element.
Released(c) ==
    /\ ~c.isActive
    /\ ~c.isInitialized
    /\ c.state = "idle"
    /\ c.stream # "live"
    /\ c.hands # "open"
    /\ c.worker = "terminated"
    /\ c.camera # "running"
    /\ c.video # "attached"

C13_LockToggledOncePerHold == lockRun <= 1

-----------------------------------------------------------------------------
(***************************************************************************)
(* InventInteractionAdapter (src/unnamed/part_009), driving a platform     *)
(* that has pan, zoom, rotate and hoverNode                                *)
(***************************************************************************)

\* Bounds: the timers' clock runs until MaxNavElapsed ms after the start,
\* and at most MaxNavEvents intents are delivered to the adapter.
MaxNavElapsed == 4000
MaxNavEvents == 3
\* The time that may pass between two events.
NavGaps == {1000, 1500}

\* The delay of the mouse timeout (ms).
mouseWindow == 2000
\* this.threshold and this.friction (in hundredths); velocities, deltas and
\* scales are in ten-thousandths, kept to whole units (fractions dropped).
threshold == 1
friction == 92

\* The payloads of the PAN and ZOOM intents, and the normalised frame
\* times dt (1: 16.67 ms).
PanDeltas == {<<6, -4>>, <<0, 3>>}
ZoomScales == {10005, 9997}
FrameTimes == {1, 2}

\* A whole number of units, fractions dropped towards zero.
Trunc(num, den) == IF num >= 0 THEN num \div den ELSE -((-num) \div den)

noDecay(v, dt) == v

\* v * Math.pow(this.friction, dt)
decay(v, dt) == IF dt = 1 THEN Trunc(v * friction, 100)
                ELSE Trunc(v * friction * friction, 10000)

handlersIgnoreMouse(moving) == FALSE

\* if (this.isMouseMoving) return;
suppressed(moving) == moving

\* start(): subscriptions, mousemove listener, first frame request.
NavStart ==
    /\ ~subscribed
    /\ ~animationId
    /\ subscribed' = TRUE
    /\ mouseListener' = TRUE
    /\ animationId' = TRUE
    /\ platformCalls' = <<>>
    /\ UNCHANGED <<navNow, isMouseMoving, mouseThrottleTimer, lastMouseMove, velocity, navEvents,
                   injectedSinceMouse>>

\* stop(): the subscriptions are removed and the frame request cancelled;
\* removeEventListener is given the unbound method, which is not the
\* listener that start() registered.
NavStop ==
    /\ subscribed
    /\ subscribed' = FALSE
    /\ animationId' = FALSE
    /\ platformCalls' = <<>>
    /\ UNCHANGED <<navNow, mouseListener, isMouseMoving, mouseThrottleTimer, lastMouseMove,
                   velocity, navEvents, injectedSinceMouse>>

\* Time passes.
NavTick(gap) ==
    /\ navNow + gap <= Clock0 + MaxNavElapsed
    /\ navNow' = navNow + gap
    /\ platformCalls' = <<>>
    /\ UNCHANGED <<subscribed, mouseListener, isMouseMoving, mouseThrottleTimer, lastMouseMove,
                   velocity, animationId, navEvents, injectedSinceMouse>>

\* onMouseMove()
NavMouseMove ==
    /\ mouseListener
    /\ isMouseMoving' = TRUE
    /\ mouseThrottleTimer' = navNow + mouseWindow
    /\ lastMouseMove' = navNow
    /\ injectedSinceMouse' = FALSE
    /\ platformCalls' = <<>>
    /\ UNCHANGED <<navNow, subscribed, mouseListener, velocity, animationId, navEvents>>

\* The callback of the mouse timeout, run when it is due or later.
NavMouseTimeout ==
    /\ mouseThrottleTimer # 0
    /\ navNow >= mouseThrottleTimer
    /\ isMouseMoving' = FALSE
    /\ mouseThrottleTimer' = 0
    /\ platformCalls' = <<>>
    /\ UNCHANGED <<navNow, subscribed, mouseListener, lastMouseMove, velocity, animationId,
                   navEvents, injectedSinceMouse>>

\* What a handler leaves alone.
NavHandlerFrame ==
    /\ subscribed
    /\ navEvents < MaxNavEvents
    /\ navEvents' = navEvents + 1
    /\ UNCHANGED <<navNow, subscribed, mouseListener, isMouseMoving, mouseThrottleTimer,
                   lastMouseMove, animationId>>

\* handlePan(event)
NavPan(d) ==
    /\ NavHandlerFrame
    /\ IF suppressed(isMouseMoving)
       THEN platformCalls' = <<>> /\ UNCHANGED <<velocity, injectedSinceMouse>>
       ELSE /\ velocity' = [velocity EXCEPT !.x = d[1], !.y = d[2]]
            /\ injectedSinceMouse' = TRUE
            /\ platformCalls' = <<[op |-> "pan", a |-> d[1], b |-> d[2]]>>

\* handleZoom(event)
NavZoom(scale) ==
    /\ NavHandlerFrame
    /\ IF suppressed(isMouseMoving)
       THEN platformCalls' = <<>> /\ UNCHANGED <<velocity, injectedSinceMouse>>
       ELSE /\ velocity' = [velocity EXCEPT !.zoom = scale - 10000]
            /\ injectedSinceMouse' = TRUE
            /\ platformCalls' = <<[op |-> "zoom", a |-> scale, b |-> 0]>>

\* handleRotate(event)
NavRotate(d) ==
    /\ NavHandlerFrame
    /\ platformCalls' = IF suppressed(isMouseMoving) THEN <<>>
                        ELSE <<[op |-> "rotate", a |-> d, b |-> 0]>>
    /\ UNCHANGED <<velocity, injectedSinceMouse>>

\* handleHover(event)
NavHover(pos) ==
    /\ NavHandlerFrame
    /\ platformCalls' = IF suppressed(isMouseMoving) THEN <<>>
                        ELSE <<[op |-> "hoverNode", a |-> pos[1], b |-> pos[2]]>>
    /\ UNCHANGED <<velocity, injectedSinceMouse>>

\* One run of the loop callback of runPhysicsLoop(), dt frame times after
\* the previous one.
NavFrame(dt) ==
    /\ animationId
    /\ animationId' = TRUE
    /\ IF suppressed(isMouseMoving)
       THEN platformCalls' = <<>> /\ UNCHANGED velocity
       ELSE LET panning == Abs(velocity.x) > threshold \/ Abs(velocity.y) > threshold
                zooming == Abs(velocity.zoom) > threshold
            IN  /\ platformCalls' =
                      (IF panning
                       THEN <<[op |-> "pan", a |-> velocity.x * dt, b |-> velocity.y * dt]>>
                       ELSE <<>>)
                      \o (IF zooming
                          THEN <<[op |-> "zoom", a |-> 10000 + velocity.zoom * dt, b |-> 0]>>
                          ELSE <<>>)
                /\ velocity' = [x |-> IF panning THEN decay(velocity.x, dt) ELSE velocity.x,
                                y |-> IF panning THEN decay(velocity.y, dt) ELSE velocity.y,
                                zoom |-> IF zooming THEN decay(velocity.zoom, dt)
                                         ELSE velocity.zoom]
    /\ UNCHANGED <<navNow, subscribed, mouseListener, isMouseMoving, mouseThrottleTimer,
                   lastMouseMove, navEvents, injectedSinceMouse>>

\* new InventInteractionAdapter(platform)
InitNav ==
    /\ navNow = Clock0
    /\ subscribed = FALSE
    /\ mouseListener = FALSE
    /\ isMouseMoving = FALSE
    /\ mouseThrottleTimer = 0
    /\ lastMouseMove = 0
    /\ velocity = [x |-> 0, y |-> 0, zoom |-> 0]
    /\ animationId = FALSE
    /\ platformCalls = <<>>
    /\ navEvents = 0
    /\ injectedSinceMouse = FALSE

-----------------------------------------------------------------------------
(***************************************************************************)
(* Claims about the InventInteractionAdapter (checked under SpecNav)       *)
(***************************************************************************)

\* Less than mouseWindow ms have passed since the most recent mousemove.
InMouseWindow == lastMouseMove # 0 /\ navNow - lastMouseMove < mouseWindow

\* C14: from a mousemove until mouseWindow ms after the most recent one,
\* no handler and no frame of the inertia loop calls the platform or
\* changes the velocity; every mousemove starts the window anew.
C14_MousePriority ==
    [][ /\ (InMouseWindow /\ navNow' = navNow) =>
               (platformCalls' = <<>> /\ velocity' = velocity)
        /\ lastMouseMove' # lastMouseMove =>
               (isMouseMoving' /\ mouseThrottleTimer' = navNow' + mouseWindow
                  /\ lastMouseMove' = navNow')
        /\ (lastMouseMove' # 0 /\ navNow' - lastMouseMove' < mouseWindow) => isMouseMoving'
      ]_vars

\* A PAN intent was delivered within the window of a second mousemove,
\* later than mouseWindow after the first one, while a velocity was set.
C14_Witness ==
    /\ InMouseWindow
    /\ lastMouseMove >= Clock0 + mouseWindow
    /\ navNow > lastMouseMove
    /\ navEvents >= 2
    /\ velocity.x # 0
    /\ platformCalls = <<>>
    /\ subscribed

\* Every component of the velocity is within the threshold.
AtRest ==
    /\ Abs(velocity.x) <= threshold
    /\ Abs(velocity.y) <= threshold
    /\ Abs(velocity.zoom) <= threshold

\* C20: outside the mouse window a PAN or ZOOM intent replaces the
\* velocity by its own delta; a frame that calls the platform applies the
\* velocity it found, scaled by the frame time, and then decays it; the
\* frame request is dropped only by stop(); and once the intents have
\* ceased, the running loop comes to rest and calls the platform no more.
C20_Inertia ==
    /\ [][ /\ (navEvents' # navEvents /\ platformCalls' # <<>>
                 /\ platformCalls'[1].op = "pan") =>
                  velocity' = [velocity EXCEPT !.x = platformCalls'[1].a,
                                               !.y = platformCalls'[1].b]
           /\ (navEvents' # navEvents /\ platformCalls' # <<>>
                 /\ platformCalls'[1].op = "zoom") =>
                  velocity' = [velocity EXCEPT !.zoom = platformCalls'[1].a - 10000]
           /\ (navEvents' = navEvents /\ platformCalls' # <<>>) =>
                  \E dt \in FrameTimes :
                     /\ \A i \in 1..Len(platformCalls') :
                           \/ platformCalls'[i] = [op |-> "pan", a |-> velocity.x * dt,
                                                   b |-> velocity.y * dt]
                           \/ platformCalls'[i] = [op |-> "zoom",
                                                   a |-> 10000 + velocity.zoom * dt, b |-> 0]
                     /\ velocity'.x \in {velocity.x, decay(velocity.x, dt)}
                     /\ velocity'.y \in {velocity.y, decay(velocity.y, dt)}
                     /\ velocity'.zoom \in {velocity.zoom, decay(velocity.zoom, dt)}
                     /\ velocity' # velocity
                     /\ animationId'
           /\ (animationId /\ ~animationId') => (subscribed /\ ~subscribed')
         ]_vars
    /\ <>[]((animationId /\ ~isMouseMoving) => (AtRest /\ platformCalls = <<>>))

\* The loop is running and has brought the velocity of a PAN and a ZOOM
\* intent to rest.
C20_Witness ==
    /\ animationId
    /\ ~isMouseMoving
    /\ lastMouseMove = 0
    /\ navEvents >= 2
    /\ AtRest
    /\ velocity.zoom # 0
    /\ velocity.x # 0
    /\ platformCalls = <<>>

-----------------------------------------------------------------------------
(***************************************************************************)
(* The physics worker (src/src/workers/physics.worker.js) and the part of  *)
(* CanvasNetwork that drives it (src/unnamed/part_003).                    *)
(*                                                                         *)
(* Positions and velocities are fixed-point numbers, Unit to one world     *)
(* unit, every product and quotient truncated toward zero.  The worker     *)
(* holds its own copy of the nodes: messages carry copies.  The canvas      *)
(* keeps the node data and the theme it was mounted with.                  *)
(***************************************************************************)

MaxSteps == 4        \* STEP messages posted
MaxDragMoves == 3    \* mouse events handled
MaxInFlight == 2     \* messages waiting in one direction
MaxDataChanges == 1  \* changes of the node data after the first render

Unit == 100

REPULSION_FORCE == 4000
SPRING_LENGTH == 120
SPRING_FORCE == 8        \* hundredths
CENTER_FORCE == 5        \* thousandths
DAMPING == 85            \* hundredths
maxSpeed == 50
restSpeed == 10          \* 0.1, in hundredths
sleepEnergy == 1000      \* 0.1, in hundredths squared
GRID_SPACING == 150
pullFactor == 5          \* 0.05, in hundredths
baseRadius == 200
ringSpacing == 150

LayoutModes == {"force", "grid", "radial"}

\* Object.keys(data.clusters)
clusterKeys == <<"core", "frontier">>

\* Math.sqrt, to the fixed-point grid: the largest r with r * r <= n.
RECURSIVE SqrtBetween(_, _, _)
SqrtBetween(n, lo, hi) ==
    IF hi - lo <= 1 THEN lo
    ELSE LET mid == (lo + hi) \div 2
         IN IF mid * mid <= n THEN SqrtBetween(n, mid, hi) ELSE SqrtBetween(n, lo, mid)

Sqrt(n) == SqrtBetween(n, 0, 46341)

\* The value of a number field that holds NaN (0 / 0 and every sum,
\* difference, product or quotient with a NaN operand); a value no
\* position, velocity or energy of the model takes.
NaN == -999999999
Add(a, b) == IF a = NaN \/ b = NaN THEN NaN ELSE a + b
Sub(a, b) == IF a = NaN \/ b = NaN THEN NaN ELSE a - b

\* nodeMap.get(id): the index of the node in nodes (0: undefined)
RECURSIVE IndexFrom(_, _, _)
IndexFrom(ns, id, i) ==
    IF i > Len(ns) THEN 0 ELSE IF ns[i].id = id THEN i ELSE IndexFrom(ns, id, i + 1)

nodeMapGet(ns, id) == IndexFrom(ns, id, 1)

\* The force one pair of nodes exerts on its first node (lines 71-79).
RepulsionOf(a, b) ==
    IF a.x = NaN \/ b.x = NaN THEN <<NaN, NaN>>
    ELSE
    LET dx == a.x - b.x
        dy == a.y - b.y
        distSq == dx * dx + dy * dy
        dist == Sqrt(distSq) + Unit \div 10
        force == Trunc(Trunc(REPULSION_FORCE * Unit * Unit, dist) * Unit, dist)
    IN <<Trunc(dx * force, dist), Trunc(dy * force, dist)>>

\* 1. Repulsion: the loops over i and j > i.
RECURSIVE Repulsion(_, _, _)
Repulsion(ns, i, j) ==
    IF i > Len(ns) THEN ns
    ELSE IF j > Len(ns) THEN Repulsion(ns, i + 1, i + 2)
    ELSE LET f == RepulsionOf(ns[i], ns[j])
         IN Repulsion([ns EXCEPT ![i].vx = Add(@, f[1]), ![i].vy = Add(@, f[2]),
                                 ![j].vx = Sub(@, f[1]), ![j].vy = Sub(@, f[2])], i, j + 1)

\* The force of one edge on its target node (lines 94-100): dx / dist is
\* 0 / 0 when the endpoints are at the same position.
SpringOf(a, b) ==
    IF a.x = NaN \/ b.x = NaN THEN <<NaN, NaN>>
    ELSE
    LET dx == a.x - b.x
        dy == a.y - b.y
        dist == Sqrt(dx * dx + dy * dy)
        force == Trunc((dist - SPRING_LENGTH * Unit) * SPRING_FORCE, 100)
    IN IF dist = 0 THEN <<NaN, NaN>>
       ELSE <<Trunc(dx * force, dist), Trunc(dy * force, dist)>>

\* The edge loop ends at the first edge with a missing endpoint.
RECURSIVE AttractionEndsAtMissing(_, _, _)
AttractionEndsAtMissing(ns, es, k) ==
    IF k > Len(es) THEN ns
    ELSE LET s == nodeMapGet(ns, es[k].source)
             t == nodeMapGet(ns, es[k].target)
         IN IF s = 0 \/ t = 0 THEN ns
            ELSE LET f == SpringOf(ns[s], ns[t])
                 IN AttractionEndsAtMissing(
                        [[ns EXCEPT ![s].vx = Sub(@, f[1]), ![s].vy = Sub(@, f[2])]
                             EXCEPT ![t].vx = Add(@, f[1]), ![t].vy = Add(@, f[2])], es, k + 1)

\* 2. Attraction: edges.forEach.
RECURSIVE Attraction(_, _, _)
Attraction(ns, es, k) ==
    IF k > Len(es) THEN ns
    ELSE LET s == nodeMapGet(ns, es[k].source)
             t == nodeMapGet(ns, es[k].target)
         IN IF s = 0 \/ t = 0 THEN Attraction(ns, es, k + 1)
            ELSE LET f == SpringOf(ns[s], ns[t])
                 IN Attraction([[ns EXCEPT ![s].vx = Sub(@, f[1]), ![s].vy = Sub(@, f[2])]
                                    EXCEPT ![t].vx = Add(@, f[1]), ![t].vy = Add(@, f[2])],
                               es, k + 1)

\* node.vx += dx * 0.05; node.vy += dy * 0.05, toward a target
PullTo(n, tx, ty) ==
    IF n.x = NaN THEN [n EXCEPT !.vx = NaN, !.vy = NaN]
    ELSE [n EXCEPT !.vx = Add(@, Trunc((tx - n.x) * pullFactor, 100)),
                   !.vy = Add(@, Trunc((ty - n.y) * pullFactor, 100))]

\* Math.ceil(Math.sqrt(nodes.length * 1.5))
GRID_COLS(n) == CHOOSE c \in 1..(n + 1) : 2 * c * c >= 3 * n /\ (c = 1 \/ 2 * (c - 1) * (c - 1) < 3 * n)

\* Grid layout
GridLayout(ns) ==
    [i \in 1..Len(ns) |->
        LET cols == GRID_COLS(Len(ns))
            col == (i - 1) % cols
            row == (i - 1) \div cols
        IN PullTo(ns[i], (2 * col - cols) * (GRID_SPACING \div 2) * Unit,
                         (2 * row - cols) * (GRID_SPACING \div 2) * Unit)]

\* node.id.split('').reduce((acc, char) => acc + char.charCodeAt(0), 0), for
\* the ids of the model: 'Z' has character code 90.
charCodeSum(id) == CASE id = "Z" -> 90 [] id = "ZZ" -> 180 [] id = "ZZZ" -> 270

\* Math.cos and Math.sin at the angles the ids of the model give, in degrees
cos(deg) == CASE deg = 0 -> 1 [] deg = 90 -> 0 [] deg = 180 -> -1 [] deg = 270 -> 0
sin(deg) == CASE deg = 0 -> 0 [] deg = 90 -> 1 [] deg = 180 -> 0 [] deg = 270 -> -1

\* Radial layout.  The nodes the canvas sends carry no cluster, so
\* clusterKeys.indexOf(node.cluster) is -1 and the ring is clusterKeys.length.
RadialLayout(ns, keys) ==
    [i \in 1..Len(ns) |->
        LET ringIndex == Len(keys)
            radius == baseRadius + ringIndex * ringSpacing
            angle == charCodeSum(ns[i].id) % 360
        IN PullTo(ns[i], cos(angle) * radius * Unit, sin(angle) * radius * Unit)]

\* 3. Center gravity and damping, speed limit, rest, move: one node.
Integrate(n) ==
    IF n.vx = NaN \/ n.vy = NaN \/ n.x = NaN
    THEN \* no comparison with NaN is true: the velocity stays NaN and is
         \* added to the position
         [n EXCEPT !.vx = NaN, !.vy = NaN, !.x = NaN, !.y = NaN]
    ELSE
    LET vx1 == Trunc((n.vx - Trunc(n.x * CENTER_FORCE, 1000)) * DAMPING, 100)
        vy1 == Trunc((n.vy - Trunc(n.y * CENTER_FORCE, 1000)) * DAMPING, 100)
        vMag == Sqrt(vx1 * vx1 + vy1 * vy1)
        vx2 == IF vMag > maxSpeed * Unit THEN Trunc(vx1 * maxSpeed * Unit, vMag) ELSE vx1
        vy2 == IF vMag > maxSpeed * Unit THEN Trunc(vy1 * maxSpeed * Unit, vMag) ELSE vy1
        vx == IF vMag < restSpeed THEN 0 ELSE vx2
        vy == IF vMag < restSpeed THEN 0 ELSE vy2
    IN [n EXCEPT !.vx = vx, !.vy = vy, !.x = @ + vx, !.y = @ + vy]

\* totalEnergy
RECURSIVE EnergyFrom(_, _)
EnergyFrom(ns, i) ==
    IF i > Len(ns) THEN 0
    ELSE IF ns[i].vx = NaN \/ ns[i].vy = NaN THEN NaN
    ELSE Add(ns[i].vx * ns[i].vx + ns[i].vy * ns[i].vy, EnergyFrom(ns, i + 1))

totalEnergy(ns) == EnergyFrom(ns, 1)

\* One pass of the STEP branch over a non-empty node list.
StepPass(ns, es, mode, keys) ==
    LET forced == CASE mode = "grid" -> GridLayout(ns)
                    [] mode = "radial" -> RadialLayout(ns, keys)
                    [] OTHER -> Attraction(Repulsion(ns, 1, 2), es, 1)
    IN [i \in 1..Len(ns) |-> Integrate(forced[i])]

stopsWhenQuiet(ns) == Len(ns) = 0 \/ totalEnergy(ns) < sleepEnergy

\* if (nodes.length === 0) return;
noNodes(ns) == Len(ns) = 0

Tick(ns) == [type |-> "TICK", nodes |-> ns, totalEnergy |-> totalEnergy(ns)]

\* self.onmessage, type INIT_DATA or UPDATE_DATA
WorkerUpdateData ==
    /\ toWorker # <<>>
    /\ Head(toWorker).type = "UPDATE_DATA"
    /\ toWorker' = Tail(toWorker)
    /\ nodes' = Head(toWorker).nodes
    /\ edges' = Head(toWorker).edges
    /\ posted' = <<>>
    /\ handled' = "UPDATE_DATA"
    /\ UNCHANGED <<localNodes, layoutMode, dataChanges, dragRef, dragPos, isDragging, simulationActive,
                   fromWorker, stepsPosted, dragMoves>>

\* self.onmessage, type STEP
WorkerStep ==
    /\ toWorker # <<>>
    /\ Head(toWorker).type = "STEP"
    /\ toWorker' = Tail(toWorker)
    /\ handled' = "STEP"
    /\ IF noNodes(nodes)
       THEN /\ posted' = <<>>
            /\ UNCHANGED <<nodes, fromWorker>>
       ELSE /\ nodes' = StepPass(nodes, edges, Head(toWorker).layoutMode,
                                 Head(toWorker).clusterKeys)
            /\ posted' = <<Tick(nodes')>>
            /\ fromWorker' = Append(fromWorker, Tick(nodes'))
    /\ UNCHANGED <<edges, localNodes, layoutMode, dataChanges, dragRef, dragPos, isDragging,
                   simulationActive, stepsPosted, dragMoves>>

\* The node data the canvas is mounted with (data.nodes after the cluster
\* and year filters, data.edges between them): none, one node in the
\* centre, a close pair, a distant pair, three nodes with one edge.
NodeData ==
    { [nodes |-> <<>>, edges |-> <<>>],
      [nodes |-> << [id |-> "Z", x |-> 0, y |-> 0] >>, edges |-> <<>>],
      [nodes |-> << [id |-> "Z", x |-> -5 * Unit, y |-> 0],
                    [id |-> "ZZ", x |-> 5 * Unit, y |-> 0] >>,
       edges |-> <<>>],
      [nodes |-> << [id |-> "Z", x |-> -150 * Unit, y |-> 0],
                    [id |-> "ZZ", x |-> 150 * Unit, y |-> 0] >>,
       edges |-> <<>>],
      [nodes |-> << [id |-> "Z", x |-> 0, y |-> 0],
                    [id |-> "ZZ", x |-> 100 * Unit, y |-> 0],
                    [id |-> "ZZZ", x |-> 0, y |-> 100 * Unit] >>,
       edges |-> << [source |-> "Z", target |-> "ZZ"] >>] }

\* screenToWorld() of the mouse positions of the model
DragPositions == { <<0, 0>>, <<40 * Unit, -20 * Unit>> }

\* processedNodes: every node with vx: 0, vy: 0
processedNodes(d) ==
    [id \in {d.nodes[i].id : i \in 1..Len(d.nodes)} |->
        LET n == d.nodes[nodeMapGet(d.nodes, id)]
        IN [x |-> n.x, y |-> n.y, vx |-> 0, vy |-> 0]]

\* nodesPayload and edgesPayload of the UPDATE_DATA message
UpdateData(d) ==
    [type |-> "UPDATE_DATA",
     nodes |-> [i \in 1..Len(d.nodes) |->
                   [id |-> d.nodes[i].id, x |-> d.nodes[i].x, y |-> d.nodes[i].y,
                    vx |-> 0, vy |-> 0]],
     edges |-> d.edges]

\* The first render and the mount effects: the worker is created and, when
\* there are nodes, sent the data.
CanvasMount(d, mode) ==
    /\ layoutMode = "none"
    /\ layoutMode' = mode
    /\ localNodes' = processedNodes(d)
    /\ toWorker' = IF Len(d.nodes) > 0 THEN <<UpdateData(d)>> ELSE <<>>
    /\ simulationActive' = TRUE
    /\ UNCHANGED <<nodes, edges, posted, handled, dragRef, dragPos, isDragging, fromWorker,
                   stepsPosted, dragMoves, dataChanges>>

\* The render loop's animate(), as far as the worker is concerned.
Animate ==
    /\ layoutMode # "none"
    /\ stepsPosted < MaxSteps
    /\ Len(toWorker) < MaxInFlight
    /\ simulationActive' = (simulationActive \/ isDragging)
    /\ IF simulationActive'
       THEN /\ toWorker' = Append(toWorker, [type |-> "STEP", layoutMode |-> layoutMode,
                                             clusterKeys |-> clusterKeys])
            /\ stepsPosted' = stepsPosted + 1
       ELSE UNCHANGED <<toWorker, stepsPosted>>
    /\ UNCHANGED <<nodes, edges, posted, handled, localNodes, layoutMode, dataChanges, dragRef, dragPos,
                   isDragging, fromWorker, dragMoves>>

\* workerRef.current.onmessage, type TICK
RECURSIVE SyncPositions(_, _, _)
SyncPositions(local, updatedNodes, i) ==
    IF i > Len(updatedNodes) THEN local
    ELSE LET uNode == updatedNodes[i]
         IN SyncPositions(IF uNode.id \in DOMAIN local
                          THEN [local EXCEPT ![uNode.id].x = uNode.x, ![uNode.id].y = uNode.y]
                          ELSE local,
                          updatedNodes, i + 1)

\* The handler is created once, by the mount effect, and looks nodes up
\* in the nodeMap of the first render: after processedNodes has been
\* rebuilt it writes to the node objects of the first render, which the
\* canvas no longer draws.
CanvasOnTick ==
    /\ fromWorker # <<>>
    /\ fromWorker' = Tail(fromWorker)
    /\ localNodes' = IF dataChanges > 0 THEN localNodes
                     ELSE SyncPositions(localNodes, Head(fromWorker).nodes, 1)
    /\ simulationActive' = IF Head(fromWorker).totalEnergy < sleepEnergy /\ simulationActive
                           THEN FALSE ELSE simulationActive
    /\ UNCHANGED <<nodes, edges, posted, handled, layoutMode, dataChanges, dragRef, dragPos, isDragging,
                   toWorker, stepsPosted, dragMoves>>

\* handleMouseDown, over the hovered node ("null": over the background)
handleMouseDown(hoveredNode) ==
    /\ layoutMode # "none"
    /\ ~isDragging
    /\ dragMoves < MaxDragMoves
    /\ dragMoves' = dragMoves + 1
    /\ isDragging' = TRUE
    /\ dragRef' = hoveredNode
    /\ dragPos' = NoPos
    /\ UNCHANGED <<nodes, edges, posted, handled, localNodes, layoutMode, dataChanges, simulationActive,
                   toWorker, fromWorker, stepsPosted>>

\* handleMouseMove with the button down, the mouse at world position pos
handleMouseMove(pos) ==
    /\ isDragging
    /\ dragMoves < MaxDragMoves
    /\ dragMoves' = dragMoves + 1
    /\ IF dragRef # "null"
       THEN /\ localNodes' = [localNodes EXCEPT ![dragRef] =
                                 [x |-> pos[1], y |-> pos[2], vx |-> 0, vy |-> 0]]
            /\ dragPos' = pos
       ELSE UNCHANGED <<localNodes, dragPos>>
    /\ UNCHANGED <<nodes, edges, posted, handled, layoutMode, dataChanges, dragRef, isDragging,
                   simulationActive, toWorker, fromWorker, stepsPosted>>

\* handleMouseUp
handleMouseUp ==
    /\ isDragging
    /\ dragMoves < MaxDragMoves
    /\ dragMoves' = dragMoves + 1
    /\ dragRef' = "null"
    /\ dragPos' = NoPos
    /\ isDragging' = FALSE
    /\ UNCHANGED <<nodes, edges, posted, handled, localNodes, layoutMode, dataChanges, simulationActive,
                   toWorker, fromWorker, stepsPosted>>

\* The node data after a change: the distant pair.
ChangedData == {d \in NodeData : Len(d.nodes) = 2 /\ d.nodes[1].x < -100 * Unit}

\* A change of data.nodes or hiddenClusters that changes the set of visible
\* nodes: processedNodes, nodeMap and processedEdges are rebuilt and the
\* send-data effect runs again.
DataChange(d) ==
    /\ layoutMode # "none"
    /\ ~isDragging
    /\ dataChanges < MaxDataChanges
    /\ Len(toWorker) < MaxInFlight
    /\ DOMAIN processedNodes(d) # DOMAIN localNodes
    /\ dataChanges' = dataChanges + 1
    /\ localNodes' = processedNodes(d)
    /\ simulationActive' = TRUE
    /\ toWorker' = IF Len(d.nodes) > 0 THEN Append(toWorker, UpdateData(d)) ELSE toWorker
    /\ UNCHANGED <<nodes, edges, posted, handled, layoutMode, dragRef, dragPos, isDragging,
                   fromWorker, stepsPosted, dragMoves>>

InitPhys ==
    /\ dataChanges = 0
    /\ layoutMode = "none"
    /\ localNodes = processedNodes([nodes |-> <<>>, edges |-> <<>>])
    /\ toWorker = <<>>
    /\ nodes = <<>>
    /\ edges = <<>>
    /\ posted = <<>>
    /\ handled = "none"
    /\ dragRef = "null"
    /\ dragPos = NoPos
    /\ isDragging = FALSE
    /\ simulationActive = TRUE
    /\ fromWorker = <<>>
    /\ stepsPosted = 0
    /\ dragMoves = 0

\* A step of the worker's onmessage that receives a STEP message.
ReceivesStep ==
    /\ toWorker # <<>>
    /\ Head(toWorker).type = "STEP"
    /\ toWorker' = Tail(toWorker)

\* C16: a STEP the physics worker receives while it has no nodes changes
\* neither nodes nor edges and posts nothing; a STEP it receives while it
\* has at least one node makes exactly one pass over the nodes and posts
\* exactly one TICK, which carries the nodes after the pass and the sum of
\* their squared speeds, whatever the energy was before the pass.
C16_StepTicksOnce ==
    [][ReceivesStep =>
          IF Len(nodes) = 0
          THEN /\ nodes' = nodes
               /\ edges' = edges
               /\ posted' = <<>>
               /\ fromWorker' = fromWorker
          ELSE /\ nodes' = StepPass(nodes, edges, Head(toWorker).layoutMode,
                                    Head(toWorker).clusterKeys)
               /\ edges' = edges
               /\ Len(posted') = 1
               /\ posted'[1].type = "TICK"
               /\ posted'[1].nodes = nodes'
               /\ posted'[1].totalEnergy = EnergyFrom(nodes', 1)
               /\ fromWorker' = Append(fromWorker, posted'[1])
       ]_vars

\* The worker has just answered a STEP with a TICK although its one node
\* lies at rest in the centre: the energy was zero before and after the pass.
C16_Witness ==
    /\ handled = "STEP"
    /\ Len(nodes) = 1
    /\ nodes[1].x = 0 /\ nodes[1].y = 0
    /\ Len(posted) = 1
    /\ posted[1].totalEnergy = 0

\* C17: while a node is being dragged, from the first mousemove of the drag
\* to the release, the canvas shows it at the position of the latest
\* mousemove with velocity zero, whatever STEP and TICK messages pass between
\* the canvas and the worker.
C17_DragOverridesSimulation ==
    (dragRef # "null" /\ dragPos # NoPos) =>
        /\ localNodes[dragRef].x = dragPos[1]
        /\ localNodes[dragRef].y = dragPos[2]
        /\ localNodes[dragRef].vx = 0
        /\ localNodes[dragRef].vy = 0

\* The squared distance of two of the worker's nodes.
pairDistSq(ns, i, j) ==
    (ns[i].x - ns[j].x) * (ns[i].x - ns[j].x) + (ns[i].y - ns[j].y) * (ns[i].y - ns[j].y)

\* C19: with no edges, a force-directed STEP that starts and ends with the
\* total energy above the sleep threshold moves no pair of nodes closer
\* together.
C19_DistanceNeverShrinks ==
    [][(/\ ReceivesStep
        /\ Head(toWorker).layoutMode = "force"
        /\ edges = <<>>
        /\ Len(nodes) > 0
        /\ totalEnergy(nodes) > sleepEnergy
        /\ totalEnergy(nodes') > sleepEnergy)
       => \A i, j \in 1..Len(nodes) :
             pairDistSq(nodes', i, j) >= pairDistSq(nodes, i, j)
      ]_vars

-----------------------------------------------------------------------------
(***************************************************************************)
(* The message handler of the gesture worker                               *)
(* (src/src/gesture/GestureWorker.js), with the configuration of           *)
(* src/unnamed/part_001.  Coordinates, distances, smoothing factors and    *)
(* scales are in thousandths, truncated toward zero.                       *)
(***************************************************************************)

MaxGwElapsed == 450     \* PROCESS messages arrive until MaxGwElapsed ms after the start
MaxGwFrames == 3        \* PROCESS messages received
GwFrameGaps == {50, 150, 300}

smoothingFactor == 300
smoothingBeta == 100
zoomAlpha == 200
zoomBeta == 50
maxAlpha == 800
fistThreshold == 100
extendedRatio == 7      \* 0.7, in tenths
neutralZoom == 1000     \* 1

GwNames == {"PRECISION_ROTATE", "LOCK_MODE", "NAV_PAN", "INSPECT_MODE"}

\* LANDMARKS; landmark k of a hand is element k + 1 of its list.
WRIST == 0
THUMB_TIP == 4
INDEX_MCP == 5
MIDDLE_MCP == 9
Fingers == << <<8, 6, 5>>, <<12, 10, 9>>, <<16, 14, 13>>, <<20, 18, 17>> >>

lm(landmarks, k) == landmarks[k + 1]

\* distance(a, b)
distance(a, b) == Sqrt((a[1] - b[1]) * (a[1] - b[1]) + (a[2] - b[2]) * (a[2] - b[2]))

\* centroid(points)
RECURSIVE SumPoints(_, _)
SumPoints(points, i) ==
    IF i > Len(points) THEN <<0, 0>>
    ELSE LET rest == SumPoints(points, i + 1)
         IN <<points[i][1] + rest[1], points[i][2] + rest[2]>>

centroid(points) ==
    LET sum == SumPoints(points, 1)
    IN <<Trunc(sum[1], Len(points)), Trunc(sum[2], Len(points))>>

\* VOCABULARY.isExtended(landmarks, tip, pip, mcp)
isExtended(landmarks, f) ==
    10 * distance(lm(landmarks, Fingers[f][1]), lm(landmarks, Fingers[f][2]))
        > extendedRatio * distance(lm(landmarks, Fingers[f][2]), lm(landmarks, Fingers[f][3]))

isPointing(landmarks) ==
    /\ isExtended(landmarks, 1) /\ ~isExtended(landmarks, 2)
    /\ ~isExtended(landmarks, 3) /\ ~isExtended(landmarks, 4)

isTwoFingerPoint(landmarks) ==
    /\ isExtended(landmarks, 1) /\ isExtended(landmarks, 2)
    /\ ~isExtended(landmarks, 3) /\ ~isExtended(landmarks, 4)

isOpenPalm(landmarks) == Cardinality({f \in 1..4 : isExtended(landmarks, f)}) >= 3

palmOf(landmarks) ==
    centroid(<<lm(landmarks, WRIST), lm(landmarks, INDEX_MCP), lm(landmarks, MIDDLE_MCP)>>)

isFist(landmarks) ==
    LET p == palmOf(landmarks)
        tips == <<THUMB_TIP, 8, 12, 16, 20>>
        total == distance(lm(landmarks, tips[1]), p) + distance(lm(landmarks, tips[2]), p)
                 + distance(lm(landmarks, tips[3]), p) + distance(lm(landmarks, tips[4]), p)
                 + distance(lm(landmarks, tips[5]), p)
    IN Trunc(total, 5) < fistThreshold

\* A list of landmarks whose classification reads a point that is not there
\* (a TypeError inside the try block).
Malformed(landmarks) == Len(landmarks) < 21

\* handStates
handState(landmarks) ==
    [isPointing |-> isPointing(landmarks), isTwoFinger |-> isTwoFingerPoint(landmarks),
     isFist |-> isFist(landmarks), isOpen |-> isOpenPalm(landmarks), pos |-> palmOf(landmarks)]

\* The 21 landmarks of a hand around (cx, cy), u to a finger segment, with
\* the fingers of ext (1: index .. 4: pinky) stretched and the others bent.
HandAt(cx, cy, u, ext) ==
    [k \in 1..21 |->
        LET n == k - 1
        IN IF n = 0 THEN <<cx, cy + 3 * u>>
           ELSE IF n <= 4 THEN <<cx - 2 * u, cy + u>>
           ELSE LET f == (n - 5) \div 4 + 1
                    joint == (n - 5) % 4
                    x == cx + (2 * f - 5) * u
                IN IF joint = 0 THEN <<x, cy>>
                   ELSE IF joint = 1 THEN <<x, cy - 3 * u>>
                   ELSE IF f \in ext THEN <<x, cy - 3 * u - joint * u>>
                   ELSE <<x, cy - 2 * u>>]

openHand == HandAt(400, 500, 20, {1, 2, 3, 4})
fistHand == HandAt(600, 500, 10, {})
pointingHand == HandAt(500, 400, 30, {1})
twoFingerHand == HandAt(700, 500, 30, {1, 2})
twoFingerFar == HandAt(800, 500, 30, {1, 2})

WellFormedHands == {openHand, fistHand, pointingHand, twoFingerHand, twoFingerFar}

\* handStates and centroid(landmarks) of the hands of the model
handStates == [h \in WellFormedHands |-> handState(h)]
handCentroids == [h \in WellFormedHands |-> centroid(h)]

\* payload.multiHandLandmarks of the PROCESS messages of the model: the
\* property missing, no hand, one hand, a hand without landmarks, two hands.
GwFrames ==
    { [present |-> FALSE, hands |-> <<>>],
      [present |-> TRUE, hands |-> <<>>],
      [present |-> TRUE, hands |-> <<openHand>>],
      [present |-> TRUE, hands |-> <<fistHand>>],
      [present |-> TRUE, hands |-> <<pointingHand>>],
      [present |-> TRUE, hands |-> << <<>> >>],
      [present |-> TRUE, hands |-> <<openHand, twoFingerHand>>],
      [present |-> TRUE, hands |-> <<openHand, twoFingerFar>>] }

\* new Smoother(alpha, beta)
NewSmoother(alpha) == [alpha |-> alpha, s |-> NoPos, b |-> <<0, 0>>]

\* Smoother.update(pos)
SmootherUpdate(sm, beta, pos) ==
    IF sm.s = NoPos THEN [sm EXCEPT !.s = pos]
    ELSE LET sx == Trunc(sm.alpha * pos[1] + (1000 - sm.alpha) * (sm.s[1] + sm.b[1]), 1000)
             sy == Trunc(sm.alpha * pos[2] + (1000 - sm.alpha) * (sm.s[2] + sm.b[2]), 1000)
             bx == Trunc(beta * (sx - sm.s[1]) + (1000 - beta) * sm.b[1], 1000)
             by == Trunc(beta * (sy - sm.s[2]) + (1000 - beta) * sm.b[2], 1000)
         IN [sm EXCEPT !.s = <<sx, sy>>, !.b = <<bx, by>>]

Min(a, b) == IF a < b THEN a ELSE b

\* The names the try block adds to rawDetected.
RawDetected(hs) ==
    {n \in GwNames :
        \/ n = "PRECISION_ROTATE" /\ \E i \in 1..Len(hs) : hs[i].isPointing
        \/ n = "LOCK_MODE" /\ \E i \in 1..Len(hs) : hs[i].isFist
        \/ n = "NAV_PAN" /\ \E i \in 1..Len(hs) : hs[i].isOpen
        \/ /\ n = "INSPECT_MODE"
           /\ Len(hs) = 2
           /\ \/ (hs[1].isOpen \/ hs[1].isFist) /\ hs[2].isTwoFinger
              \/ (hs[2].isOpen \/ hs[2].isFist) /\ hs[1].isTwoFinger}

\* inspectPos
InspectPos(hs) ==
    IF Len(hs) # 2 THEN NoPos
    ELSE IF (hs[1].isOpen \/ hs[1].isFist) /\ hs[2].isTwoFinger THEN hs[2].pos
    ELSE IF (hs[2].isOpen \/ hs[2].isFist) /\ hs[1].isTwoFinger THEN hs[1].pos
    ELSE NoPos

\* sm.update(rawDetected) at time t
GwUpdate(entries, det, t) ==
    [s \in GwNames |-> WorkerTransition(entries[s], s \in det, t)]

\* onmessage, type INIT
GwInit ==
    /\ ~gwReady
    /\ gwReady' = TRUE
    /\ gwStates' = [s \in GwNames |-> NoEntry]
    /\ smoother' = NewSmoother(smoothingFactor)
    /\ zoomSmoother' = NewSmoother(zoomAlpha)
    /\ gwPosted' = <<>>
    /\ gwThrew' = FALSE
    /\ gwHandled' = "INIT"
    /\ UNCHANGED <<gwNow, lastPalmDist, lastSmoothedPos, lastZoomScale, gwFrame, rawDetected,
                   gwFrameCount>>

\* multiHandLandmarks.length, read for handCount outside the try block
handCountThrows(frame) == ~frame.present

\* onmessage, type PROCESS, gap ms after the previous message
GwProcess(frame, gap) ==
    /\ gwFrameCount < MaxGwFrames
    /\ gwNow + gap <= Clock0 + MaxGwElapsed
    /\ gwNow' = gwNow + gap
    /\ gwFrameCount' = gwFrameCount + 1
    /\ gwFrame' = frame
    /\ gwHandled' = "PROCESS"
    /\ IF ~gwReady
       THEN /\ gwPosted' = <<>>
            /\ gwThrew' = FALSE
            /\ rawDetected' = {}
            /\ UNCHANGED <<gwReady, gwStates, smoother, zoomSmoother, lastPalmDist,
                           lastSmoothedPos, lastZoomScale>>
       ELSE LET hands == frame.hands
                hasHands == frame.present /\ Len(hands) > 0
                caught == hasHands /\ \E i \in 1..Len(hands) : Malformed(hands[i])
                classified == hasHands /\ ~caught
                hs == [i \in 1..Len(hands) |-> handStates[hands[i]]]
                rawPalm == IF Len(hands) = 2 THEN centroid(<<hs[1].pos, hs[2].pos>>)
                           ELSE hs[1].pos
                adapted == IF lastSmoothedPos # NoPos
                           THEN [smoother EXCEPT !.alpha =
                                    Min(maxAlpha, smoothingFactor
                                                  + distance(rawPalm, lastSmoothedPos) * 2)]
                           ELSE smoother
                smoothed == SmootherUpdate(adapted, smoothingBeta,
                                           <<1000 - rawPalm[1], rawPalm[2]>>)
                dist == distance(handCentroids[hands[1]], handCentroids[hands[2]])
                zoomed == SmootherUpdate(zoomSmoother, zoomBeta,
                                         <<Trunc(dist * 1000, lastPalmDist), 0>>)
                out == GwUpdate(gwStates, rawDetected', gwNow + gap)
            IN /\ rawDetected' = IF classified THEN RawDetected(hs) ELSE {}
               /\ IF classified
                  THEN /\ smoother' = smoothed
                       /\ lastSmoothedPos' = smoothed.s
                       /\ IF Len(hands) = 2
                          THEN /\ lastPalmDist' = dist
                               /\ IF lastPalmDist # 0
                                  THEN /\ zoomSmoother' = zoomed
                                       /\ lastZoomScale' = zoomed.s[1]
                                  ELSE UNCHANGED <<zoomSmoother, lastZoomScale>>
                          ELSE /\ lastPalmDist' = 0
                               /\ lastZoomScale' = neutralZoom
                               /\ UNCHANGED zoomSmoother
                  ELSE IF caught
                  THEN UNCHANGED <<smoother, zoomSmoother, lastPalmDist, lastSmoothedPos,
                                   lastZoomScale>>
                  ELSE /\ lastPalmDist' = 0
                       /\ lastZoomScale' = neutralZoom
                       /\ UNCHANGED <<smoother, zoomSmoother, lastSmoothedPos>>
               /\ gwStates' = [s \in GwNames |-> out[s].entry]
               /\ gwThrew' = handCountThrows(frame)
               /\ gwPosted' = IF handCountThrows(frame) THEN <<>>
                              ELSE << [type |-> "RESULTS",
                                       activeStates |-> {s \in GwNames : out[s].active},
                                       pos |-> lastSmoothedPos',
                                       zoomScale |-> lastZoomScale',
                                       inspectPos |-> IF classified THEN InspectPos(hs) ELSE NoPos,
                                       handCount |-> Len(hands)] >>
               /\ UNCHANGED gwReady

InitGw ==
    /\ gwReady = FALSE
    /\ gwNow = Clock0
    /\ gwStates = [s \in GwNames |-> NoEntry]
    /\ smoother = NewSmoother(smoothingFactor)
    /\ zoomSmoother = NewSmoother(zoomAlpha)
    /\ lastPalmDist = 0
    /\ lastSmoothedPos = NoPos
    /\ lastZoomScale = neutralZoom
    /\ gwPosted = <<>>
    /\ gwThrew = FALSE
    /\ gwFrame = [present |-> TRUE, hands |-> <<>>]
    /\ rawDetected = {}
    /\ gwFrameCount = 0
    /\ gwHandled = "none"

\* C15: a PROCESS message the gesture worker receives after INIT never makes
\* the handler throw and is answered by exactly one RESULTS message, also
\* when the frame has no hand (the landmark list empty or missing) and when
\* the classification of a hand raises an exception; the answer to a frame
\* with no hand carries handCount 0 and zoomScale 1 and no gesture was
\* detected in the frame.
C15_ProcessAlwaysAnswers ==
    (gwReady /\ gwHandled = "PROCESS") =>
        /\ ~gwThrew
        /\ Len(gwPosted) = 1
        /\ gwPosted[1].type = "RESULTS"
        /\ (~gwFrame.present \/ Len(gwFrame.hands) = 0) =>
              /\ rawDetected = {}
              /\ gwPosted[1].handCount = 0
              /\ gwPosted[1].zoomScale = neutralZoom

-----------------------------------------------------------------------------
(***************************************************************************)
(* RESULTS messages for frames without hands.  The worker answers such a   *)
(* frame with zoomScale 1, the position it smoothed last and the states    *)
(* its grace period still holds; handleWorkerResults() does not read       *)
(* handCount.                                                              *)
(***************************************************************************)

\* handleWorkerResults(data) for the RESULTS of a frame with hands
WgcHandsResults(names, pos, zoomScale) ==
    /\ WgcResults(names, pos, zoomScale)
    /\ noHands' = FALSE
    /\ frameTick' = 1 - frameTick

\* handleWorkerResults(data) for the RESULTS of a frame without hands
WgcNoHandsResults(names, pos) ==
    /\ WgcResults(names, pos, neutralZoom)
    /\ noHands' = TRUE
    /\ frameTick' = 1 - frameTick

InitFrames == noHands = FALSE /\ frameTick = 0

IdleEmitted == \E i \in 1..Len(emitted) : emitted[i].intent = "IDLE"

\* C18: when the frames without hands persist, that is RESULTS messages keep
\* arriving and from some point on each of them has handCount 0, the
\* controller eventually emits an IDLE intent.
C18_IdleEventuallyEmitted ==
    (<>[]noHands /\ []<>(frameTick = 0) /\ []<>(frameTick = 1)) => <>IdleEmitted

\* A step in which the worker, after INIT, receives a PROCESS message and
\* answers it.
AnswersProcess ==
    /\ gwReady
    /\ gwFrameCount' = gwFrameCount + 1
    /\ ~gwThrew'

\* C21: every answered frame whose hand count is not 2 clears lastPalmDist
\* and reports zoomScale 1; a frame with two hands that does not directly
\* follow an answered frame with two hands reports zoomScale 1 as well, so a
\* zoomScale other than 1 is reported only for a two-hand frame directly
\* after a two-hand frame.
C21_ZoomBaselineReset ==
    [][AnswersProcess =>
          /\ Len(gwFrame'.hands) # 2 =>
                /\ lastPalmDist' = 0
                /\ gwPosted'[1].zoomScale = neutralZoom
          /\ (Len(gwFrame'.hands) = 2
              /\ (gwHandled # "PROCESS" \/ gwThrew \/ Len(gwFrame.hands) # 2)) =>
                gwPosted'[1].zoomScale = neutralZoom
       ]_vars

\* C26: whatever calls have been made on the worker-based controller, its
\* status state is 'active' only while isInitialized is true (initialize()
\* has succeeded and destroy() has not been called since).
C26_ActiveImpliesInitialized == wgc.state = "active" => wgc.isInitialized

\* C27: the isActive field reported by getStatus() is true exactly when the
\* reported state is 'active'.
C27_IsActiveMatchesState == wgc.isActive <=> wgc.state = "active"

\* The attempt has settled and its controller.initialize() had failed.
FailedAttempt(i) ==
    /\ attempts[i].pc = "done"
    /\ controllers[i].state # "none"
    /\ ~attempts[i].initOk

\* C28: once an attempt whose controller.initialize() failed has settled,
\* the camera stream of its controller is not live and the gesture worker
\* its constructor created has been terminated.
C28_FailedInitHoldsNothing ==
    \A i \in InitIds :
       FailedAttempt(i) =>
          /\ controllers[i].stream # "live"
          /\ controllers[i].worker = "terminated"

\* cleanupFeatures() was the last registry call and no attempt is waiting
\* on an import or on controller.initialize().
CleanedUpAndSettled ==
    /\ initCount > 0
    /\ currentInitId = 0
    /\ \A i \in InitIds : attempts[i].pc \in {"idle", "done"}

\* C23: after cleanupFeatures(), once every attempt has settled,
\* activeControllers is empty and no adapter is still started (subscribed
\* to the bus with its frame loop and mousemove listener).
C23_CleanupLeavesNothingRunning ==
    CleanedUpAndSettled =>
       /\ activeControllers = [gesture |-> 0, inventAdapter |-> 0]
       /\ \A i \in InitIds : adapters[i] # "started"

\* C30: once a mousemove has happened, a frame of the inertia loop calls
\* the platform only if a PAN or ZOOM intent has set the velocity after the
\* most recent mouse window (intents are dropped during the window, so:
\* after the most recent mousemove); a velocity recorded before the window
\* is not applied when the window has ended.
C30_NoResumeAfterMouseWindow ==
    [][(navEvents' = navEvents /\ platformCalls' # <<>> /\ lastMouseMove # 0) =>
          injectedSinceMouse
      ]_vars

-----------------------------------------------------------------------------
(***************************************************************************)
(* The two callers of pause() and resume() on the shared bus: the blur and *)
(* focus handlers of useGestureIntents, and handlePause of the adapter     *)
(***************************************************************************)

\* handleBlur: intentBus.pause()
handleBlur ==
    /\ Pause
    /\ blurred' = TRUE
    /\ UNCHANGED resumeTimers

\* handleFocus: intentBus.resume()
handleFocus ==
    /\ Resume
    /\ blurred' = FALSE
    /\ UNCHANGED resumeTimers

\* The number of callbacks of the latest emit that ran handlePause():
\* each has called intentBus.pause() and set a timeout of one second.
TimeoutsSet(cs, beh) == Cardinality({i \in 1..Len(cs) : beh[cs[i][1]] = "pause"})

\* emit(event) with handlePause among the callbacks.
EmitToAdapter(intent, beh) ==
    /\ Emit(intent, beh)
    /\ resumeTimers' = resumeTimers + TimeoutsSet(calls', beh)
    /\ UNCHANGED blurred

\* The callback of a timeout of handlePause: intentBus.resume()
ResumeTimeout ==
    /\ resumeTimers > 0
    /\ Resume
    /\ resumeTimers' = resumeTimers - 1
    /\ UNCHANGED blurred

\* The window has focus and no timeout is pending.
InitFocus ==
    /\ blurred = FALSE
    /\ resumeTimers = 0

\* C24: while the window is blurred the bus is paused, whenever the
\* timeouts of handlePause run.
C24_BlurKeepsBusPaused == blurred => paused

-----------------------------------------------------------------------------
(***************************************************************************)
(* The physics worker on its own: any client may post it data and steps    *)
(***************************************************************************)

\* A node of a payload, at rest at (x, y) world units.
NodeAt(id, x, y) == [id |-> id, x |-> x * Unit, y |-> y * Unit, vx |-> 0, vy |-> 0]

\* The payloads of the UPDATE_DATA messages: edges to ids that are not
\* among the nodes before and after an edge between two nodes; a self-loop;
\* an edge between two nodes at the same position; an edge between two
\* nodes apart.
WorkerGraphs ==
    { [nodes |-> <<NodeAt("Z", 0, 0), NodeAt("ZZ", 100, 0), NodeAt("ZZZ", 0, 100)>>,
       edges |-> << [source |-> "Q", target |-> "Z"],
                    [source |-> "Z", target |-> "ZZ"],
                    [source |-> "ZZZ", target |-> "Q"] >>],
      [nodes |-> <<NodeAt("Z", -20, 0), NodeAt("ZZ", 20, 0)>>,
       edges |-> << [source |-> "Z", target |-> "Z"] >>],
      [nodes |-> <<NodeAt("Z", 50, 50), NodeAt("ZZ", 50, 50)>>,
       edges |-> << [source |-> "Z", target |-> "ZZ"] >>],
      [nodes |-> <<NodeAt("Z", -20, 0), NodeAt("ZZ", 20, 0)>>,
       edges |-> << [source |-> "Z", target |-> "ZZ"] >>] }

\* The layouts of the STEP messages posted to the worker on its own.
StepModes == {"force", "grid"}

\* postMessage({ type: 'UPDATE_DATA', payload }); the client of this
\* specification posts when it has received every TICK posted so far.
ClientPostData(g) ==
    /\ Len(toWorker) < MaxInFlight
    /\ fromWorker = <<>>
    /\ toWorker' = Append(toWorker, [type |-> "UPDATE_DATA", nodes |-> g.nodes,
                                     edges |-> g.edges])
    /\ UNCHANGED <<nodes, edges, posted, handled, localNodes, layoutMode, dataChanges, dragRef, dragPos,
                   isDragging, simulationActive, fromWorker, stepsPosted, dragMoves>>

\* postMessage({ type: 'STEP', payload })
ClientPostStep(mode) ==
    /\ Len(toWorker) < MaxInFlight
    /\ fromWorker = <<>>
    /\ stepsPosted < MaxSteps
    /\ stepsPosted' = stepsPosted + 1
    /\ toWorker' = Append(toWorker, [type |-> "STEP", layoutMode |-> mode,
                                     clusterKeys |-> clusterKeys])
    /\ UNCHANGED <<nodes, edges, posted, handled, localNodes, layoutMode, dataChanges, dragRef, dragPos,
                   isDragging, simulationActive, fromWorker, dragMoves>>

\* The client receives a TICK.
ClientOnTick ==
    /\ fromWorker # <<>>
    /\ fromWorker' = Tail(fromWorker)
    /\ UNCHANGED <<nodes, edges, posted, handled, localNodes, layoutMode, dataChanges, dragRef, dragPos,
                   isDragging, simulationActive, toWorker, stepsPosted, dragMoves>>

\* The edges whose source and target are both ids of nodes.
PresentEdges(ns, es) ==
    SelectSeq(es, LAMBDA e : nodeMapGet(ns, e.source) # 0 /\ nodeMapGet(ns, e.target) # 0)

\* C22: a STEP over a non-empty node set posts its TICK whatever edges
\* point to ids outside the node set, and leaves every node exactly as the
\* pass over the same nodes without those edges leaves it.
C22_MissingEndpointSkipped ==
    [][(ReceivesStep /\ Len(nodes) > 0) =>
          /\ nodes' = StepPass(nodes, PresentEdges(nodes, edges), Head(toWorker).layoutMode,
                               Head(toWorker).clusterKeys)
          /\ posted' = <<Tick(nodes')>>
      ]_vars

\* The worker has answered a force-directed STEP over nodes with an edge
\* between two of them and edges to and from an id outside the node set,
\* and the pass has moved the nodes.
C22_Witness ==
    /\ handled = "STEP"
    /\ Len(posted) = 1
    /\ Len(PresentEdges(nodes, edges)) = 1
    /\ Len(edges) = 3
    /\ \A i \in 1..Len(nodes) : nodes[i].vx # NaN /\ nodes[i].vx # 0

\* No number of the TICK is NaN.
Finite(tick) ==
    /\ tick.totalEnergy # NaN
    /\ \A i \in 1..Len(tick.nodes) :
          /\ tick.nodes[i].x # NaN /\ tick.nodes[i].y # NaN
          /\ tick.nodes[i].vx # NaN /\ tick.nodes[i].vy # NaN

\* C29: every TICK the worker posts, also for a graph with a self-loop or
\* with an edge between nodes at the same position, carries finite
\* positions, velocities and totalEnergy.
C29_StepStaysFinite ==
    \A i \in 1..Len(posted) : Finite(posted[i])

\* The ids of the nodes a TICK carries.
TickIds(tick) == {tick.nodes[i].id : i \in 1..Len(tick.nodes)}

\* The TICK was computed on a snapshot other than the current one (a data
\* change changes the set of node ids).
StaleTick(tick) == TickIds(tick) # DOMAIN localNodes

\* C25: while the canvas has nodes, the TICK handler puts the simulation to
\* sleep only for a TICK computed on the current snapshot with energy below
\* the threshold; a TICK computed on an earlier snapshot changes neither
\* simulationActiveRef nor the positions of the current nodes.
C25_StaleTickIgnored ==
    [][(fromWorker # <<>> /\ fromWorker' = Tail(fromWorker) /\ DOMAIN localNodes # {}) =>
          /\ (simulationActive /\ ~simulationActive') =>
                (~StaleTick(Head(fromWorker)) /\ Head(fromWorker).totalEnergy < sleepEnergy)
          /\ StaleTick(Head(fromWorker)) =>
                (simulationActive' = simulationActive /\ localNodes' = localNodes)
      ]_vars

-----------------------------------------------------------------------------
(***************************************************************************)
(* Specifications: one per component                                       *)
(***************************************************************************)

Init == InitBus /\ InitGSM /\ InitWorker /\ InitRegistry /\ InitWgc /\ InitNav /\ InitPhys /\ InitGw
        /\ InitFrames /\ InitFocus

NextBus ==
    \/ (\E k \in Kinds, cb \in Callbacks : Subscribe(k, cb)) /\ UNCHANGED notBus
    \/ (\E k \in Kinds, cb \in Callbacks : Unsubscribe(k, cb)) /\ UNCHANGED notBus
    \/ (\E k \in Kinds, cb \in Callbacks : UnsubscribeAgain(k, cb)) /\ UNCHANGED notBus
    \/ (\E intent \in Intents, beh \in [Callbacks -> Behaviours] : Emit(intent, beh))
           /\ UNCHANGED notBus
    \/ Pause /\ UNCHANGED notBus
    \/ Resume /\ UNCHANGED notBus

SpecBus == Init /\ [][NextBus]_vars

NextGSM ==
    \/ (\E det \in SUBSET Gestures, gap \in FrameGaps : Update(det, gap)) /\ UNCHANGED notGSM
    \/ Reset /\ UNCHANGED notGSM

SpecGSM == Init /\ [][NextGSM]_vars

NextWorker ==
    \/ (\E det \in SUBSET StateNames, gap \in WorkerFrameGaps : WorkerUpdate(det, gap))
           /\ UNCHANGED notWorker
    \/ WorkerInit /\ UNCHANGED notWorker

SpecWorker == Init /\ [][NextWorker]_vars

NextRegistry ==
    \/ InitializeFeatures /\ UNCHANGED notRegistry
    \/ InitializeFeaturesAgain /\ UNCHANGED notRegistry
    \/ (\E i \in InitIds : ImportsResolve(i)) /\ UNCHANGED notRegistry
    \/ (\E i \in InitIds : ImportsReject(i)) /\ UNCHANGED notRegistry
    \/ (\E i \in InitIds : GetUserMediaResolve(i)) /\ UNCHANGED notRegistry
    \/ (\E i \in InitIds, notAllowed \in BOOLEAN : GetUserMediaReject(i, notAllowed))
           /\ UNCHANGED notRegistry
    \/ (\E i \in InitIds : PlayResolve(i)) /\ UNCHANGED notRegistry
    \/ (\E i \in InitIds, notAllowed \in BOOLEAN : SetupReject(i, notAllowed))
           /\ UNCHANGED notRegistry
    \/ (\E i \in InitIds : InitMediaPipeResolve(i)) /\ UNCHANGED notRegistry
    \/ (\E i \in InitIds : AfterInitialize(i)) /\ UNCHANGED notRegistry
    \/ (\E i \in InitIds : AdapterImportResolve(i)) /\ UNCHANGED notRegistry
    \/ (\E i \in InitIds : AdapterImportReject(i)) /\ UNCHANGED notRegistry
    \/ CleanupFeatures /\ UNCHANGED notRegistry

SpecRegistry == Init /\ [][NextRegistry]_vars


NextWgc ==
    \/ WgcInitialize /\ UNCHANGED <<notWgc, frameVars>>
    \/ WgcGetUserMediaResolve /\ UNCHANGED <<notWgc, frameVars>>
    \/ WgcPlayResolve /\ UNCHANGED <<notWgc, frameVars>>
    \/ WgcInitMediaPipeResolve /\ UNCHANGED <<notWgc, frameVars>>
    \/ (\E notAllowed \in BOOLEAN : WgcAcquisitionReject(notAllowed))
          /\ UNCHANGED <<notWgc, frameVars>>
    \/ WgcStart /\ UNCHANGED <<notWgc, frameVars>>
    \/ WgcStop /\ UNCHANGED <<notWgc, frameVars>>
    \/ WgcDestroy /\ UNCHANGED <<notWgc, frameVars>>
    \/ (\E names \in SUBSET {"PRECISION_ROTATE", "LOCK_MODE", "NAV_PAN"},
           pos \in {NoPos} \cup ResultPositions, zoomScale \in ResultZoomScales :
              WgcHandsResults(names, pos, zoomScale)) /\ UNCHANGED notWgc
    \/ (\E names \in {{}, {"LOCK_MODE"}, {"NAV_PAN"}}, pos \in {NoPos, <<504, 500>>} :
              WgcNoHandsResults(names, pos)) /\ UNCHANGED notWgc
    \/ (\E level \in {1, 2} : WgcSetZoomLevel(level)) /\ UNCHANGED <<notWgc, frameVars>>

SpecWgc == Init /\ [][NextWgc]_vars


NextNav ==
    \/ NavStart /\ UNCHANGED notNav
    \/ NavStop /\ UNCHANGED notNav
    \/ (\E gap \in NavGaps : NavTick(gap)) /\ UNCHANGED notNav
    \/ NavMouseMove /\ UNCHANGED notNav
    \/ NavMouseTimeout /\ UNCHANGED notNav
    \/ (\E d \in PanDeltas : NavPan(d)) /\ UNCHANGED notNav
    \/ (\E scale \in ZoomScales : NavZoom(scale)) /\ UNCHANGED notNav
    \/ (\E d \in {4} : NavRotate(d)) /\ UNCHANGED notNav
    \/ (\E pos \in {<<5000, 5000>>} : NavHover(pos)) /\ UNCHANGED notNav
    \/ (\E dt \in FrameTimes : NavFrame(dt)) /\ UNCHANGED notNav

SpecNav == Init /\ [][NextNav]_vars


\* requestAnimationFrame runs the loop callback it was given: a loop that
\* is requested again and again gets to run, it is not forever stopped and
\* restarted between two frames.
SpecNavLive ==
    SpecNav /\ SF_vars((\E dt \in FrameTimes : NavFrame(dt)) /\ UNCHANGED notNav)


NextPhys ==
    \/ (\E d \in ChangedData : DataChange(d)) /\ UNCHANGED notPhys
    \/ (\E d \in NodeData, mode \in LayoutModes : CanvasMount(d, mode)) /\ UNCHANGED notPhys
    \/ WorkerUpdateData /\ UNCHANGED notPhys
    \/ WorkerStep /\ UNCHANGED notPhys
    \/ Animate /\ UNCHANGED notPhys
    \/ CanvasOnTick /\ UNCHANGED notPhys
    \/ (\E h \in DOMAIN localNodes \cup {"null"} : handleMouseDown(h)) /\ UNCHANGED notPhys
    \/ (\E pos \in DragPositions : handleMouseMove(pos)) /\ UNCHANGED notPhys
    \/ handleMouseUp /\ UNCHANGED notPhys

SpecPhys == Init /\ [][NextPhys]_vars


NextGw ==
    \/ GwInit /\ UNCHANGED notGw
    \/ (\E frame \in GwFrames, gap \in GwFrameGaps : GwProcess(frame, gap)) /\ UNCHANGED notGw

SpecGw == Init /\ [][NextGw]_vars


\* While the camera loop runs, MediaPipe keeps delivering frames and the
\* worker keeps answering them: a RESULTS message that can be handled is
\* handled.
SpecWgcLive ==
    SpecWgc /\ WF_vars(/\ \/ \E names \in SUBSET {"PRECISION_ROTATE", "LOCK_MODE", "NAV_PAN"},
                               pos \in {NoPos} \cup ResultPositions,
                               zoomScale \in ResultZoomScales :
                                  WgcHandsResults(names, pos, zoomScale)
                            \/ \E graced \in {{}, {"LOCK_MODE"}, {"NAV_PAN"}},
                                  last \in {NoPos, <<504, 500>>} :
                                  WgcNoHandsResults(graced, last)
                         /\ UNCHANGED notWgc)


NextFocus ==
    \/ (\E k \in Kinds, cb \in Callbacks : Subscribe(k, cb)) /\ UNCHANGED <<notFocus, focusVars>>
    \/ (\E intent \in Intents, beh \in [Callbacks -> {"ok", "pause"}] : EmitToAdapter(intent, beh))
           /\ UNCHANGED notFocus
    \/ handleBlur /\ UNCHANGED notFocus
    \/ handleFocus /\ UNCHANGED notFocus
    \/ ResumeTimeout /\ UNCHANGED notFocus

SpecFocus == Init /\ [][NextFocus]_vars


NextPhysWorker ==
    \/ (\E g \in WorkerGraphs : ClientPostData(g)) /\ UNCHANGED notPhys
    \/ (\E mode \in StepModes : ClientPostStep(mode)) /\ UNCHANGED notPhys
    \/ WorkerUpdateData /\ UNCHANGED notPhys
    \/ WorkerStep /\ UNCHANGED notPhys
    \/ ClientOnTick /\ UNCHANGED notPhys

SpecPhysWorker == Init /\ [][NextPhysWorker]_vars

=============================================================================
